---- MODULE Spec2Model ----
(***************************************************************************)
(* Model of the caching/loading core of feed-watcher-ui:                   *)
(*   - PersistentCache   (lib/persistent-cache, localStorage backed)       *)
(*   - GitHubAPI         (lib/github-api.ts, memory cache + rate limit)    *)
(*   - PostLoader        (lib/post-loader.ts, local/remote dispatch)       *)
(*   - extractDateFromFileName and the file comparator (lib/mdx-parser)    *)
(* Time is Date.now() in milliseconds; the clock of the model moves in     *)
(* steps of Tick ms.                                                       *)
(***************************************************************************)
EXTENDS Integers, Sequences, FiniteSets, TLC

\* ------------------------------------------------------------------ bounds
Tick == 300000
MaxTime == 900000
MaxInflight == 1
RaceInflight == 2
BadArg == 2
MaxSlack == 6
MaxAstral == 4
MaxPostsTime == 300000
MaxPage == 3
MaxPageSize == 2
MaxNames == 3
MaxExpiryTime == 7200000
FeedPages == 2
MaxLoads == 2
MaxResets == 2

\* ------------------------------------------------------- program constants
\* null / undefined, for strings and for records; an absent number is <<>>
None == "none"
Null == [null |-> TRUE]

GITHUB_API_BASE == "https://api.github.com"
CACHE_DURATION == 5 * 60 * 1000
LONG_CACHE_DURATION == 30 * 60 * 1000
prefix == "feed-watcher-cache:"
maxSize == 50
defaultTTL == 30 * 60 * 1000
ONE_HOUR == 60 * 60 * 1000

defaultConfig ==
  [ repositoryUrl |-> "https://github.com/monokaijs/j2team-backup",
    owner |-> "monokaijs",
    repo |-> "j2team-backup",
    postsPath |-> "posts/j2team-community-backup" ]

\* ------------------------------------------------------------- state
VARIABLES
  now,                 \* Date.now()
  hasWindow,           \* typeof window !== 'undefined'
  localStorage,        \* durable storage: storage key -> serialized value
  cache,               \* GitHubAPI.cache: url -> CacheEntry
  rateLimitRemaining,  \* GitHubAPI.rateLimitRemaining
  rateLimitReset,      \* GitHubAPI.rateLimitReset (seconds)
  remote,              \* the repository the content API serves
  inflight,            \* makeRequest calls suspended at an await
  last,                \* what the step just taken returned or threw
  isLocalMode,         \* PostLoader.isLocalMode
  disk,                \* the local posts directory (Null: there is none)
  task,                \* the getPosts call under way, and its result
  names,               \* a directory listing handed to the sort
  sortedNames,         \* what the sort made of it
  storageRaises,       \* every access to localStorage raises (storage blocked)
  written,             \* cache key -> the entry set(key) wrote, while it stands
  panel,               \* ConfigPanel: tempUrl, tempPostsPath, validationStatus
  doc,                 \* a document handed to parseMDXContent
  parsed,              \* what parseMDXContent made of it
  feed                 \* Newsfeed: posts, pagination, error, postLoader, loads under way

vars == <<now, hasWindow, localStorage, cache, rateLimitRemaining,
          rateLimitReset, remote, inflight, last, isLocalMode, disk, task,
          names, sortedNames, storageRaises, written, panel, doc, parsed,
          feed>>

\* The state of the parts a step of another part leaves alone
cacheVars == <<storageRaises, written>>
parseVars == <<doc, parsed>>
otherParts == <<names, sortedNames, cacheVars, panel, parseVars, feed>>

\* ------------------------------------------------------------ maps
Has(f, k) == k \in DOMAIN f
Put(f, k, v) == [x \in DOMAIN f \cup {k} |-> IF x = k THEN v ELSE f[x]]
Remove(f, k) == [x \in DOMAIN f \ {k} |-> f[x]]
RemoveAll(f, ks) == [x \in DOMAIN f \ ks |-> f[x]]
EmptyMap == [x \in {} |-> Null]

\* ----------------------------------------------------- PersistentCache
getKey(key) == <<prefix, key>>

JSON_stringify(entry) == [json |-> entry]
JSON_parse(item) == item.json

\* A stored value that is no JSON text: JSON.parse raises on it
Garbage == [text |-> "garbage"]
parses(item) == "json" \in DOMAIN item

\* (mutant) expired at the instant of expiry already
isExpired_ge(entry, t) == t >= entry.expiresAt

\* line 47: if (Date.now() > entry.expiresAt)
isExpired(entry, t) == t > entry.expiresAt

\* Whether the operation raises to its caller. With storage that raises on
\* access: set raises at setItem (line 28), its catch calls cleanup(true),
\* which raises at Object.keys(localStorage) (line 75) outside any try; get
\* raises at getItem (line 41), its catch calls delete, which raises at
\* removeItem (line 62); delete, clear and getStats have no try around their
\* first access (lines 62, 68, 121).
set_raises == hasWindow /\ storageRaises
get_raises == hasWindow /\ storageRaises
delete_raises == hasWindow /\ storageRaises
clear_raises == hasWindow /\ storageRaises
getStats_raises == hasWindow /\ storageRaises

persistentCache_delete(ls, key) ==
  IF ~hasWindow \/ storageRaises THEN ls ELSE Remove(ls, getKey(key))

persistentCache_get(ls, key, t) ==
  IF ~hasWindow \/ storageRaises THEN [value |-> Null, ls |-> ls]
  ELSE IF ~Has(ls, getKey(key)) THEN [value |-> Null, ls |-> ls]
  ELSE IF ~parses(ls[getKey(key)])
  THEN [value |-> Null, ls |-> persistentCache_delete(ls, key)]
  ELSE LET entry == JSON_parse(ls[getKey(key)]) IN
       IF isExpired(entry, t)
       THEN [value |-> Null, ls |-> persistentCache_delete(ls, key)]
       ELSE [value |-> entry, ls |-> ls]

\* (mutant) every key of the storage removed, whatever it starts with
persistentCache_clear_all(ls) ==
  IF ~hasWindow \/ storageRaises THEN ls
  ELSE RemoveAll(ls, DOMAIN ls)

\* clear(), lines 65-70: only the keys that start with the prefix
persistentCache_clear(ls) ==
  IF ~hasWindow \/ storageRaises THEN ls
  ELSE RemoveAll(ls, {k \in DOMAIN ls : k[1] = prefix})

\* getStats, lines 116-149: the number of values under the prefix
getStats(ls) ==
  IF ~hasWindow \/ storageRaises THEN [size |-> 0]
  ELSE [size |-> Cardinality({k \in DOMAIN ls : k[1] = prefix})]

\* The sets of n entries a sort by ascending timestamp puts first; entries of
\* equal timestamp come in the key order of the storage, which the platform
\* chooses.
RECURSIVE OldestSets(_, _, _)
OldestSets(ls, valid, n) ==
  IF n <= 0 \/ valid = {} THEN {{}}
  ELSE UNION { { {k} \cup R : R \in OldestSets(ls, valid \ {k}, n - 1) } :
               k \in { m \in valid : \A o \in valid :
                         JSON_parse(ls[m]).timestamp <= JSON_parse(ls[o]).timestamp } }

\* (mutant) one entry more than the excess removed
cleanup_oneMore(ls, aggressive, t) ==
  IF ~hasWindow \/ storageRaises THEN {ls}
  ELSE
    LET keys == {k \in DOMAIN ls : k[1] = prefix}
        entries == {k \in keys : parses(ls[k])}
        validEntries == {k \in entries : t <= JSON_parse(ls[k]).expiresAt}
        purged == RemoveAll(ls, keys \ validEntries)
        toRemove == IF aggressive
                    THEN Cardinality(validEntries) \div 2
                    ELSE Cardinality(validEntries) - maxSize + 1
    IN IF aggressive \/ Cardinality(validEntries) > maxSize
       THEN { RemoveAll(purged, R) : R \in OldestSets(ls, validEntries, toRemove) }
       ELSE {purged}

\* cleanup(aggressive), lines 72-114: the storages it can leave behind. Values
\* that do not parse are removed (lines 86-88), then the expired entries, then
\* the oldest valid ones.
cleanup(ls, aggressive, t) ==
  IF ~hasWindow \/ storageRaises THEN {ls}
  ELSE
    LET keys == {k \in DOMAIN ls : k[1] = prefix}
        entries == {k \in keys : parses(ls[k])}
        expired == {k \in entries : t > JSON_parse(ls[k]).expiresAt}
        validEntries == {k \in entries : t <= JSON_parse(ls[k]).expiresAt}
        purged == RemoveAll(ls, (keys \ entries) \cup expired)
        toRemove == IF aggressive
                    THEN Cardinality(validEntries) \div 2
                    ELSE Cardinality(validEntries) - maxSize
    IN IF aggressive \/ Cardinality(validEntries) > maxSize
       THEN { RemoveAll(purged, R) : R \in OldestSets(ls, validEntries, toRemove) }
       ELSE {purged}

\* (mutant) the caller's ttl ignored for the default
persistentCache_set_defaultTTL(ls, key, data, ttl, etag, t, writeOk) ==
  IF ~hasWindow \/ storageRaises THEN {ls}
  ELSE IF writeOk
  THEN LET entry == [data |-> data, timestamp |-> t, etag |-> etag,
                     expiresAt |-> t + defaultTTL]
       IN cleanup(Put(ls, getKey(key), JSON_stringify(entry)), FALSE, t)
  ELSE cleanup(ls, TRUE, t)

\* (mutant) the write is tried again after the cleanup
persistentCache_set_retry(ls, key, data, ttl, etag, t, writeOk) ==
  IF ~hasWindow \/ storageRaises THEN {ls}
  ELSE LET entry == [data |-> data, timestamp |-> t, etag |-> etag,
                     expiresAt |-> t + ttl]
       IN IF writeOk
          THEN cleanup(Put(ls, getKey(key), JSON_stringify(entry)), FALSE, t)
          ELSE { Put(c, getKey(key), JSON_stringify(entry)) : c \in cleanup(ls, TRUE, t) }

\* set(key, data, ttl, etag); writeOk = localStorage.setItem does not raise
persistentCache_set(ls, key, data, ttl, etag, t, writeOk) ==
  IF ~hasWindow \/ storageRaises THEN {ls}
  ELSE IF writeOk
  THEN LET entry == [data |-> data, timestamp |-> t, etag |-> etag,
                     expiresAt |-> t + ttl]
       IN cleanup(Put(ls, getKey(key), JSON_stringify(entry)), FALSE, t)
  ELSE cleanup(ls, TRUE, t)

\* ------------------------------------------------------- file names
\* A file name is the sequence of its characters.
Digit == <<"0", "1", "2", "3", "4", "5", "6", "7", "8", "9">>
D2(n) == <<Digit[(n \div 10) + 1], Digit[(n % 10) + 1]>>
D4(n) == D2(n \div 100) \o D2(n % 100)
MdxExt == <<".", "m", "d", "x">>

\* YYYY-MM-DD_HH-MM-SS_<slug>.mdx
PostName(y, mo, d, h, mi, s, slug) ==
  D4(y) \o <<"-">> \o D2(mo) \o <<"-">> \o D2(d) \o <<"_">> \o
  D2(h) \o <<"-">> \o D2(mi) \o <<"-">> \o D2(s) \o <<"_">> \o slug \o MdxExt

NameA == PostName(2024, 12, 15, 10, 30, 0, <<"a">>)
NameB == PostName(2024, 12, 14, 10, 30, 0, <<"b">>)
NameC == PostName(2024, 12, 15, 10, 30, 0, <<"c">>)
\* a name of the pattern whose month is 13
NameInvalid == PostName(2024, 13, 1, 10, 30, 0, <<"d">>)
\* names without a timestamp: a post, a file that is no post, a directory
NameUndated == <<"n", "o", "t", "e", "s">> \o MdxExt
NameReadme == <<"r", "e", "a", "d", "m", "e", ".", "m", "d">>
NameDir == <<"d", "r", "a", "f", "t", "s">> \o MdxExt

\* file.name.endsWith('.mdx')
endsWithMdx(name) ==
  /\ Len(name) >= Len(MdxExt)
  /\ SubSeq(name, Len(name) - Len(MdxExt) + 1, Len(name)) = MdxExt

\* ------------------------------------------------- the content API (server)
\* A document: which front-matter fields it carries, whether the front matter
\* is well-formed, and whether its base64 transfer encoding decodes.
requiredFields == {"title", "author", "date", "feedName", "postId"}
GoodDoc == [fields |-> requiredFields, yamlOk |-> TRUE, base64Ok |-> TRUE]
NoDateDoc == [fields |-> requiredFields \ {"date"}, yamlOk |-> TRUE, base64Ok |-> TRUE]
BadYamlDoc == [fields |-> requiredFields, yamlOk |-> FALSE, base64Ok |-> TRUE]
BadBase64Doc == [fields |-> requiredFields, yamlOk |-> TRUE, base64Ok |-> FALSE]

\* A repository state: the posts directory in the order the API lists it, and
\* each file's document.
\* A path is the sequence of its parts.
DirPath(cfg) == <<cfg.postsPath>>
FilePath(cfg, name) == <<cfg.postsPath, "/", name>>

Repo1 == [ listing |-> <<NameB, NameA>>,
           docs |-> [n \in {NameA, NameB} |-> GoodDoc],
           dirs |-> {}, postsIsFile |-> FALSE ]
Repo2 == [ listing |-> <<NameB, NameA, NameC>>,
           docs |-> [n \in {NameA, NameB, NameC} |->
                       IF n = NameA THEN NoDateDoc ELSE GoodDoc],
           dirs |-> {}, postsIsFile |-> FALSE ]
\* a directory with a file that is no post, a subdirectory, an undated post
\* with broken front matter and a post whose transfer encoding is broken
Repo3 == [ listing |-> <<NameReadme, NameB, NameDir, NameA, NameUndated>>,
           docs |-> [n \in {NameReadme, NameA, NameB, NameUndated} |->
                       IF n = NameB THEN BadBase64Doc
                       ELSE IF n = NameUndated THEN BadYamlDoc ELSE GoodDoc],
           dirs |-> {NameDir}, postsIsFile |-> FALSE ]
\* postsPath names a file, not a directory
Repo4 == [ listing |-> <<>>, docs |-> [n \in {} |-> GoodDoc],
           dirs |-> {}, postsIsFile |-> TRUE ]

\* GET .../contents/{path}: whether the path exists, and the body of its 200
\* response: the array of the directory's entries (held in a record, so that it
\* can be told from a file object), or the file object
ResourceExists(repo, cfg, path) ==
  path = <<>> \/ path = DirPath(cfg) \/ \E n \in DOMAIN repo.docs : path = FilePath(cfg, n)

Resource(repo, cfg, path) ==
  IF path = <<>>
  THEN [ entries |-> << [ name |-> DirPath(cfg), path |-> DirPath(cfg),
                          type |-> IF repo.postsIsFile THEN "file" ELSE "dir" ] >> ]
  ELSE IF path = DirPath(cfg) /\ ~repo.postsIsFile
  THEN [ entries |->
           [ i \in 1..Len(repo.listing) |->
               [ name |-> repo.listing[i], path |-> FilePath(cfg, repo.listing[i]),
                 type |-> IF repo.listing[i] \in repo.dirs THEN "dir" ELSE "file" ] ] ]
  ELSE IF path = DirPath(cfg)
  THEN [ name |-> <<cfg.postsPath>>, path |-> path, content |-> GoodDoc,
         encoding |-> "base64" ]
  ELSE LET n == CHOOSE m \in DOMAIN repo.docs : path = FilePath(cfg, m)
       IN [ name |-> n, path |-> path, content |-> repo.docs[n],
            encoding |-> "base64" ]

\* The ETag header of a body: the content API sends one tag per content
\* version with every 200 response.
ETagOf(data) == [etag |-> data]

\* parseInt(response.headers.get(h) || dflt)
parseInt(s) ==
  CASE s = "0" -> 0 [] s = "1" -> 1 [] s = "60" -> 60
    [] s = "900" -> 900
headerOr(h, dflt) == IF h = None THEN dflt ELSE h

\* ------------------------------------------------------------ GitHubAPI
Endpoint(cfg, path) == <<"/repos/", cfg.owner, "/", cfg.repo, "/contents/", path>>
PathOf(endpoint) == endpoint[6]
Url(endpoint) == <<GITHUB_API_BASE, endpoint>>
cacheKeyOf(endpoint) == <<"api:", endpoint>>

GitHubAPIError(message, status) ==
  [name |-> "GitHubAPIError", message |-> message, status |-> status]

\* line 39: cacheDuration || this.CACHE_DURATION
durationOf(cacheDuration) ==
  IF cacheDuration = 0 THEN CACHE_DURATION ELSE cacheDuration

\* (mutant) a memory entry of any age accepted
memoryFresh_always(entry, duration, t) == TRUE

\* line 45: Date.now() - cached.timestamp < duration
memoryFresh(entry, duration, t) == t - entry.timestamp < duration

\* (mutant) the comparison reversed
persistentFresh_reversed(entry, duration, t) == t - entry.timestamp > duration

\* line 53: Date.now() - persistentEntry.timestamp < duration
persistentFresh(entry, duration, t) == t - entry.timestamp < duration

\* (mutant) the gate stays closed until a response raises the remaining value
rateLimitExceeded_sticky(remaining, reset, t) == remaining <= 1

\* (mutant) the budget compared with < 1
rateLimitExceeded_lt(remaining, reset, t) == remaining < 1 /\ t < reset * 1000

\* line 61
rateLimitExceeded(remaining, reset, t) == remaining <= 1 /\ t < reset * 1000

\* (mutant) the copy put into memory is stamped with the time of the copy
promote_restamped(entry, t) == [entry EXCEPT !.timestamp = t]

\* this.cache.set(url, persistentEntry), line 56: the entry as it was stored
promote(entry, t) == entry

\* (mutant) an absent X-RateLimit-Remaining header counts as no budget left
trackedRemaining_zero(header) == parseInt(headerOr(header, "0"))

\* lines 80-81: parseInt(response.headers.get(...) || '60'), and || '0'
trackedRemaining(header) == parseInt(headerOr(header, "60"))
trackedReset(header) == parseInt(headerOr(header, "0"))

\* (mutant) a 403 counts as a usable response
responseOk_lenient(status) == (status >= 200 /\ status <= 299) \/ status = 403

\* response.ok, line 91
responseOk(status) == status >= 200 /\ status <= 299

\* lines 91-99
errorForStatus(status) ==
  IF status = 404 THEN GitHubAPIError("Repository or path not found", <<404>>)
  ELSE IF status = 403 THEN GitHubAPIError("Access forbidden or rate limit exceeded", <<403>>)
  ELSE GitHubAPIError("GitHub API error", <<status>>)

\* (mutant) every error wrapped as a network error
catchNetwork_wrapAll(error) == GitHubAPIError("Network error", <<>>)

\* lines 116-121: the catch around the network call
catchNetwork(error) ==
  IF error.name = "GitHubAPIError" THEN error
  ELSE GitHubAPIError("Network error", <<>>)

TypeError == [name |-> "TypeError", message |-> "Failed to fetch"]
SyntaxError == [name |-> "SyntaxError", message |-> "Unexpected token"]

\* What a step returned or threw: the makeRequest outcome (outcome, value), what
\* the public method that made the request gives its caller (ret), the status
\* of the response the step handled (<<>> when it handled none) and whether
\* PersistentCache.set logged 'Failed to cache data' (warn).
Obs(op, owner, endpoint, duration, outcome, value, ret, status, warn) ==
  [ op |-> op, owner |-> owner, endpoint |-> endpoint, duration |-> duration,
    outcome |-> outcome, value |-> value, ret |-> ret, status |-> status,
    warn |-> warn ]
Quiet(op) == Obs(op, "none", <<>>, 0, "none", Null, Null, <<>>, FALSE)

Return(v) == [kind |-> "return", value |-> v]
Throw(e) == [kind |-> "throw", value |-> e]
Pending == [kind |-> "pending", value |-> Null]

\* getFileContent, lines 133-153: what it makes of the response object
decodeFileContent(response) ==
  IF "content" \in DOMAIN response /\ response.encoding = "base64"
  THEN IF response.content.base64Ok
       THEN Return([text |-> response.content])
       ELSE Throw([name |-> "InvalidCharacterError", message |-> "atob"])
  ELSE Throw(GitHubAPIError("Unable to decode file content", <<>>))

\* The public method resumed with the result of its makeRequest
resume(owner, mr) ==
  IF owner = "getFileContent" /\ mr.kind = "return"
  THEN decodeFileContent(mr.value)
  ELSE mr

\* --------------------------------------------------- decodeHtmlEntities
\* A text is the sequence of its characters. The table of part_002 lines
\* 6-36 (of the accented letters two stand for the rest) and the characters
\* the pattern [a-zA-Z0-9#] accepts, as far as the texts here use them.
htmlEntities ==
  <<"&", "a", "m", "p", ";">> :> <<"&">> @@
  <<"&", "l", "t", ";">> :> <<"<">> @@
  <<"&", "g", "t", ";">> :> <<">">> @@
  <<"&", "q", "u", "o", "t", ";">> :> <<"\"">> @@
  <<"&", "#", "3", "9", ";">> :> <<"'">> @@
  <<"&", "a", "p", "o", "s", ";">> :> <<"'">> @@
  <<"&", "n", "b", "s", "p", ";">> :> <<" ">> @@
  <<"&", "a", "a", "c", "u", "t", "e", ";">> :> <<"a-acute">> @@
  <<"&", "e", "c", "i", "r", "c", ";">> :> <<"e-circ">>

EntityNameChars ==
  {"a", "c", "e", "g", "i", "l", "m", "n", "o", "p", "q", "r", "s", "t", "u", "b",
   "x", "#", "3", "9"}

\* [a-zA-Z0-9#]+ from position i on: the position after the longest run
RECURSIVE entityRunEnd(_, _)
entityRunEnd(text, i) ==
  IF i <= Len(text) /\ text[i] \in EntityNameChars
  THEN entityRunEnd(text, i + 1)
  ELSE i

\* text.replace(/&[a-zA-Z0-9#]+;/g, entity => htmlEntities[entity] || entity),
\* lines 38-40, from position i on: one pass from left to right, each match
\* replaced by its table value, or kept when the table has none; the scan
\* goes on after the match and never looks at what it has put in
RECURSIVE decodeFrom(_, _)
decodeFrom(text, i) ==
  IF i > Len(text) THEN <<>>
  ELSE IF text[i] = "&"
  THEN LET j == entityRunEnd(text, i + 1) IN
       IF j > i + 1 /\ j <= Len(text) /\ text[j] = ";"
       THEN LET entity == SubSeq(text, i, j) IN
            (IF entity \in DOMAIN htmlEntities THEN htmlEntities[entity] ELSE entity)
              \o decodeFrom(text, j + 1)
       ELSE <<"&">> \o decodeFrom(text, i + 1)
  ELSE <<text[i]>> \o decodeFrom(text, i + 1)

\* decodeHtmlEntities(text), lines 5-41
decodeHtmlEntities(text) == decodeFrom(text, 1)

\* ------------------------------------------------- extractContentPreview
\* A paragraph is the sequence of its code points; "astral" stands for a code
\* point outside the basic plane, which takes two UTF-16 units, every other
\* element for one that takes one. String.prototype.length counts units,
\* Array.from(string) gives the code points.
PREVIEW_LIMIT == 200
Ellipsis == <<".", ".", ".">>
NoPreview ==
  <<"N", "o", " ", "c", "o", "n", "t", "e", "n", "t", " ", "p", "r", "e", "v", "i", "e", "w", " ", "a", "v", "a", "i", "l", "a", "b", "l", "e", ".">>
utf16Length(text) == Len(text) + Cardinality({i \in DOMAIN text : text[i] = "astral"})

\* extractContentPreview, part_002 lines 169-178, from the first paragraph of
\* the cleaned content on
limitPreview(firstParagraph) ==
  IF utf16Length(firstParagraph) > PREVIEW_LIMIT /\ Len(firstParagraph) > PREVIEW_LIMIT
  THEN SubSeq(firstParagraph, 1, PREVIEW_LIMIT) \o Ellipsis
  ELSE IF firstParagraph # <<>> THEN firstParagraph ELSE NoPreview

\* ----------------------------------------------------------- mdx-parser
\* The body of the try, lines 45-86: matter() raises on front matter that is
\* not well-formed; a required field that is missing gives null
YAMLException == [name |-> "YAMLException", message |-> "bad front matter"]
parseBody(content, fileName, path) ==
  IF ~content.yamlOk THEN Throw(YAMLException)
  ELSE IF \E field \in requiredFields : field \notin content.fields THEN Return(Null)
  ELSE Return([ metadata |-> content.fields, fileName |-> fileName, path |-> path ])

\* (mutant) without the catch
parseMDXContent_nocatch(content, fileName, path) ==
  LET r == parseBody(content, fileName, path) IN
  IF r.kind = "throw" THEN r ELSE r.value

\* parseMDXContent, lines 43-91: the post of a document, or null when the front
\* matter does not parse (the catch) or lacks a required field
parseMDXContent(content, fileName, path) ==
  LET r == parseBody(content, fileName, path) IN
  IF r.kind = "throw" THEN Null ELSE r.value

RECURSIVE number(_)
isDigit(c) == \E i \in DOMAIN Digit : Digit[i] = c
digitValue(c) == (CHOOSE i \in DOMAIN Digit : Digit[i] = c) - 1
number(cs) == IF Len(cs) = 2 THEN digitValue(cs[1]) * 10 + digitValue(cs[2])
              ELSE number(SubSeq(cs, 1, 2)) * 100 + number(SubSeq(cs, 3, 4))

\* /^(\d{4})-(\d{2})-(\d{2})_(\d{2})-(\d{2})-(\d{2})/
dateMatch(fileName) ==
  /\ Len(fileName) >= 19
  /\ \A i \in 1..19 :
       IF i \in {5, 8, 14, 17} THEN fileName[i] = "-"
       ELSE IF i = 11 THEN fileName[i] = "_"
       ELSE isDigit(fileName[i])

isLeapYear(y) == (y % 4 = 0 /\ y % 100 # 0) \/ y % 400 = 0
daysInMonth(y, m) ==
  IF m = 2 THEN (IF isLeapYear(y) THEN 29 ELSE 28)
  ELSE IF m \in {4, 6, 9, 11} THEN 30 ELSE 31

\* Days from 1970-01-01 to the civil date y-m-d
daysFromCivil(y, m, d) ==
  LET yy == IF m <= 2 THEN y - 1 ELSE y
      era == yy \div 400
      yoe == yy - era * 400
      mp == IF m > 2 THEN m - 3 ELSE m + 9
      doy == (153 * mp + 2) \div 5 + d - 1
      doe == yoe * 365 + yoe \div 4 - yoe \div 100 + doy
  IN era * 146097 + doe - 719468

\* new Date(`${year}-${month}-${day}T${hour}:${minute}:${second}Z`): the time
\* value in seconds (every such time is a whole second), <<>> for NaN (an
\* Invalid Date: a field out of its range)
newDate(y, mo, d, h, mi, s) ==
  IF /\ mo \in 1..12
     /\ d \in 1..daysInMonth(y, mo)
     /\ (h \in 0..23 \/ (h = 24 /\ mi = 0 /\ s = 0))
     /\ mi \in 0..59
     /\ s \in 0..59
  THEN [time |-> <<daysFromCivil(y, mo, d) * 86400 + h * 3600 + mi * 60 + s>>]
  ELSE [time |-> <<>>]

\* extractDateFromFileName, lines 185-198
extractDateFromFileName(fileName) ==
  IF dateMatch(fileName)
  THEN newDate(number(SubSeq(fileName, 1, 4)), number(SubSeq(fileName, 6, 7)),
               number(SubSeq(fileName, 9, 10)), number(SubSeq(fileName, 12, 13)),
               number(SubSeq(fileName, 15, 16)), number(SubSeq(fileName, 18, 19)))
  ELSE Null

getTime(date) == date.time

\* x - y on numbers: NaN when either is
minus(x, y) == IF x = <<>> \/ y = <<>> THEN <<>> ELSE <<x[1] - y[1]>>

\* ------------------------------------------------ ordering and pagination
\* The collation of the characters of file names: punctuation, digits, letters
Alphabet ==
  <<"_", "-", ".", "0", "1", "2", "3", "4", "5", "6", "7", "8", "9",
    "a", "b", "c", "d", "e", "f", "g", "h", "i", "j", "k", "l", "m",
    "n", "o", "p", "q", "r", "s", "t", "u", "v", "w", "x", "y", "z">>
charRank(c) == CHOOSE i \in DOMAIN Alphabet : Alphabet[i] = c

\* s.localeCompare(t)
RECURSIVE localeCompare(_, _)
localeCompare(s, t) ==
  IF s = <<>> /\ t = <<>> THEN 0
  ELSE IF s = <<>> THEN -1
  ELSE IF t = <<>> THEN 1
  ELSE IF charRank(Head(s)) < charRank(Head(t)) THEN -1
  ELSE IF charRank(Head(s)) > charRank(Head(t)) THEN 1
  ELSE localeCompare(Tail(s), Tail(t))

\* The comparator of getPosts (github-api.ts lines 163-170) and of
\* getLocalPosts (post-loader.ts lines 90-98); a Date object is truthy whether
\* valid or not
compareFiles(a, b) ==
  LET dateA == extractDateFromFileName(a.name)
      dateB == extractDateFromFileName(b.name)
  IN IF dateA # Null /\ dateB # Null
     THEN minus(getTime(dateB), getTime(dateA))
     ELSE <<localeCompare(b.name, a.name)>>

\* Array.prototype.sort calls the comparator and reads NaN as +0
SortCompare(a, b) ==
  LET v == compareFiles(a, b) IN IF v = <<>> THEN 0 ELSE v[1]

RECURSIVE insert(_, _)
\* x put into the sorted sequence after the last element that does not
\* compare greater than it
insert(sorted, x) ==
  IF sorted = <<>> THEN <<x>>
  ELSE IF SortCompare(sorted[Len(sorted)], x) > 0
  THEN Append(insert(SubSeq(sorted, 1, Len(sorted) - 1), x), sorted[Len(sorted)])
  ELSE Append(sorted, x)

\* Array.prototype.sort: a stable sort, here by insertion
RECURSIVE sort(_)
sort(files) ==
  IF files = <<>> THEN <<>>
  ELSE insert(sort(SubSeq(files, 1, Len(files) - 1)), files[Len(files)])

\* Array.prototype.slice(start, end)
slice(seq, start, end) ==
  LET len == Len(seq)
      k == IF start < 0 THEN (IF len + start > 0 THEN len + start ELSE 0)
           ELSE (IF start < len THEN start ELSE len)
      final == IF end < 0 THEN (IF len + end > 0 THEN len + end ELSE 0)
               ELSE (IF end < len THEN end ELSE len)
  IN SubSeq(seq, k + 1, final)

\* (mutant) the page starts one file early
paginate_overlap(files, page, pageSize) ==
  LET startIndex == (page - 1) * pageSize - 1
      endIndex == startIndex + pageSize + 1
  IN slice(files, IF startIndex < 0 THEN 0 ELSE startIndex, endIndex)

\* github-api.ts lines 172-175, post-loader.ts lines 100-103
paginate(files, page, pageSize) ==
  LET startIndex == (page - 1) * pageSize
      endIndex == startIndex + pageSize
  IN slice(files, startIndex, endIndex)

\* (mutant) the comparison includes the end
hasMoreOf_inclusive(files, page, pageSize) ==
  LET startIndex == (page - 1) * pageSize
      endIndex == startIndex + pageSize
  IN endIndex <= Len(files)

\* github-api.ts line 176, post-loader.ts line 104
hasMoreOf(files, page, pageSize) ==
  LET startIndex == (page - 1) * pageSize
      endIndex == startIndex + pageSize
  IN endIndex < Len(files)

\* (mutant) names without the date prefix left out
mdxFiles_dated(files) ==
  SelectSeq(files, LAMBDA file : file.type = "file" /\ endsWithMdx(file.name)
                                 /\ dateMatch(file.name))

\* github-api.ts lines 161-162: the post files of a directory listing
mdxFiles(files) ==
  SelectSeq(files, LAMBDA file : file.type = "file" /\ endsWithMdx(file.name))

\* The in-flight calls holding the entry object stored under url lose it when
\* the map gets another object for url: they keep the old object.
Detach(infl, url) ==
  [ i \in DOMAIN infl |->
      IF infl[i] # Null /\ Url(infl[i].endpoint) = url /\ infl[i].ref = "cache"
      THEN [infl[i] EXCEPT !.ref = "copy"]
      ELSE infl[i] ]

DetachAll(infl) ==
  [ i \in DOMAIN infl |->
      IF infl[i] # Null /\ infl[i].ref = "cache"
      THEN [infl[i] EXCEPT !.ref = "copy"]
      ELSE infl[i] ]

FreeSlots == {i \in DOMAIN inflight : inflight[i] = Null}

\* History of a request: raced records that another request for the same
\* endpoint was in flight at some time of its life
Overlapped(infl, endpoint) ==
  [ i \in DOMAIN infl |->
      IF infl[i] # Null /\ infl[i].endpoint = endpoint
      THEN [infl[i] EXCEPT !.raced = TRUE]
      ELSE infl[i] ]

\* makeRequest, lines 37-77: from the call to the await of fetch
makeRequest(endpoint, cacheDuration, owner) ==
  LET url == Url(endpoint)
      duration == durationOf(cacheDuration)
      cacheKey == cacheKeyOf(endpoint)
  IN
  IF Has(cache, url) /\ memoryFresh(cache[url], duration, now)
  THEN /\ last' = Obs("makeRequest", owner, endpoint, duration, "memory",
                      cache[url].data, resume(owner, Return(cache[url].data)),
                      <<>>, FALSE)
       /\ UNCHANGED <<localStorage, cache, rateLimitRemaining, rateLimitReset, inflight>>
  ELSE
    LET got == persistentCache_get(localStorage, cacheKey, now)
        persistentEntry == got.value
    IN
    /\ localStorage' = got.ls
    /\ IF persistentEntry # Null /\ persistentFresh(persistentEntry, duration, now)
       THEN /\ cache' = Put(cache, url, promote(persistentEntry, now))
            /\ inflight' = Detach(inflight, url)
            /\ last' = Obs("makeRequest", owner, endpoint, duration, "persistent",
                           persistentEntry.data,
                           resume(owner, Return(persistentEntry.data)), <<>>, FALSE)
            /\ UNCHANGED <<rateLimitRemaining, rateLimitReset>>
       ELSE IF rateLimitExceeded(rateLimitRemaining, rateLimitReset, now)
       THEN /\ last' = Obs("makeRequest", owner, endpoint, duration, "ratelimit",
                           GitHubAPIError("Rate limit exceeded. Please try again later.", <<>>),
                           Throw(GitHubAPIError("Rate limit exceeded. Please try again later.", <<>>)),
                           <<>>, FALSE)
            /\ UNCHANGED <<cache, rateLimitRemaining, rateLimitReset, inflight>>
       ELSE
         LET fromMemory == Has(cache, url)
             cachedEntry == IF fromMemory THEN cache[url] ELSE persistentEntry
         IN
         /\ FreeSlots # {}
         /\ LET i == CHOOSE j \in FreeSlots : \A k \in FreeSlots : j <= k IN
            inflight' = [Overlapped(inflight, endpoint) EXCEPT ![i] =
              [ endpoint |-> endpoint, duration |-> duration, owner |-> owner,
                cachedEntry |-> IF cachedEntry = Null THEN Null
                                ELSE [data |-> cachedEntry.data, etag |-> cachedEntry.etag],
                ref |-> IF fromMemory THEN "cache" ELSE "copy",
                phase |-> "fetch", body |-> Null,
                raced |-> \E j \in DOMAIN inflight :
                            inflight[j] # Null /\ inflight[j].endpoint = endpoint ]]
         /\ last' = Obs("makeRequest", owner, endpoint, duration, "fetch", Null, Pending,
                        <<>>, FALSE)
         /\ UNCHANGED <<cache, rateLimitRemaining, rateLimitReset>>

\* The statuses the content API can answer a request with
Statuses(req) ==
  LET path == PathOf(req.endpoint)
      exists == ResourceExists(remote, defaultConfig, path)
  IN (IF exists THEN {200} ELSE {404})
     \cup (IF exists /\ req.cachedEntry # Null /\ req.cachedEntry.etag # Null
              /\ req.cachedEntry.etag = ETagOf(Resource(remote, defaultConfig, path))
           THEN {304} ELSE {})
     \cup {403, 500}

\* makeRequest, lines 77-99: fetch resolved with a response
fetchResolves(i, status, remainingHeader, resetHeader) ==
  /\ inflight[i] # Null
  /\ inflight[i].phase = "fetch"
  /\ status \in Statuses(inflight[i])
  /\ LET req == inflight[i]
         url == Url(req.endpoint)
     IN
     /\ rateLimitRemaining' = trackedRemaining(remainingHeader)
     /\ rateLimitReset' = trackedReset(resetHeader)
     /\ UNCHANGED <<localStorage>>
     /\ IF status = 304 /\ req.cachedEntry # Null
        THEN /\ cache' = IF req.ref = "cache"
                         THEN [cache EXCEPT ![url].timestamp = now]
                         ELSE cache
             /\ inflight' = [inflight EXCEPT ![i] = Null]
             /\ last' = Obs("makeRequest", req.owner, req.endpoint, req.duration, "304",
                            req.cachedEntry.data,
                            resume(req.owner, Return(req.cachedEntry.data)),
                            <<status>>, FALSE)
        ELSE IF ~responseOk(status)
        THEN /\ inflight' = [inflight EXCEPT ![i] = Null]
             /\ last' = Obs("makeRequest", req.owner, req.endpoint, req.duration, "error",
                            catchNetwork(errorForStatus(status)),
                            Throw(catchNetwork(errorForStatus(status))),
                            <<status>>, FALSE)
             /\ UNCHANGED cache
        ELSE LET data == Resource(remote, defaultConfig, PathOf(req.endpoint)) IN
             /\ inflight' = [inflight EXCEPT ![i] =
                  [req EXCEPT !.phase = "json",
                              !.body = [ data |-> data, etag |-> ETagOf(data),
                                         status |-> status ]]]
             /\ last' = Obs("makeRequest", req.owner, req.endpoint, req.duration, "headers",
                            Null, Pending, <<status>>, FALSE)
             /\ UNCHANGED cache

\* fetch rejected: no response at all
fetchRejects(i) ==
  /\ inflight[i] # Null
  /\ inflight[i].phase = "fetch"
  /\ LET req == inflight[i] IN
     /\ inflight' = [inflight EXCEPT ![i] = Null]
     /\ last' = Obs("makeRequest", req.owner, req.endpoint, req.duration, "error",
                    catchNetwork(TypeError), Throw(catchNetwork(TypeError)),
                    <<>>, FALSE)
  /\ UNCHANGED <<localStorage, cache, rateLimitRemaining, rateLimitReset>>

\* (mutant) the memory entry is written only when the map holds none
jsonResolves_firstWins(i, writeOk) ==
  /\ inflight[i] # Null
  /\ inflight[i].phase = "json"
  /\ LET req == inflight[i]
         url == Url(req.endpoint)
         data == req.body.data
         etag == req.body.etag
         cacheEntry == [data |-> data, timestamp |-> now, etag |-> etag]
     IN
     /\ cache' = IF Has(cache, url) THEN cache ELSE Put(cache, url, cacheEntry)
     /\ localStorage' \in persistentCache_set(localStorage, cacheKeyOf(req.endpoint),
                                              data, req.duration, etag, now, writeOk)
     /\ inflight' = [Detach(inflight, url) EXCEPT ![i] = Null]
     /\ last' = Obs("makeRequest", req.owner, req.endpoint, req.duration, "200",
                    data, resume(req.owner, Return(data)), <<req.body.status>>,
                    hasWindow /\ ~writeOk)
  /\ UNCHANGED <<rateLimitRemaining, rateLimitReset>>

\* makeRequest, lines 101-115: response.json() resolved
jsonResolves(i, writeOk) ==
  /\ inflight[i] # Null
  /\ inflight[i].phase = "json"
  /\ LET req == inflight[i]
         url == Url(req.endpoint)
         data == req.body.data
         etag == req.body.etag
         cacheEntry == [data |-> data, timestamp |-> now, etag |-> etag]
     IN
     /\ cache' = Put(cache, url, cacheEntry)
     /\ localStorage' \in persistentCache_set(localStorage, cacheKeyOf(req.endpoint),
                                              data, req.duration, etag, now, writeOk)
     /\ inflight' = [Detach(inflight, url) EXCEPT ![i] = Null]
     /\ last' = Obs("makeRequest", req.owner, req.endpoint, req.duration, "200",
                    data, resume(req.owner, Return(data)), <<req.body.status>>,
                    hasWindow /\ ~writeOk)
  /\ UNCHANGED <<rateLimitRemaining, rateLimitReset>>

\* response.json() rejected
jsonRejects(i) ==
  /\ inflight[i] # Null
  /\ inflight[i].phase = "json"
  /\ LET req == inflight[i] IN
     /\ inflight' = [inflight EXCEPT ![i] = Null]
     /\ last' = Obs("makeRequest", req.owner, req.endpoint, req.duration, "error",
                    catchNetwork(SyntaxError), Throw(catchNetwork(SyntaxError)),
                    <<req.body.status>>, FALSE)
  /\ UNCHANGED <<localStorage, cache, rateLimitRemaining, rateLimitReset>>

\* (mutant) a listing request joins one that is waiting for its response
getRepositoryContents_joined(path) ==
  IF \E j \in DOMAIN inflight :
       inflight[j] # Null /\ inflight[j].endpoint = Endpoint(defaultConfig, path)
  THEN /\ last' = Obs("makeRequest", "getRepositoryContents",
                      Endpoint(defaultConfig, path), CACHE_DURATION, "joined", Null,
                      Pending, <<>>, FALSE)
       /\ UNCHANGED <<localStorage, cache, rateLimitRemaining, rateLimitReset, inflight>>
  ELSE makeRequest(Endpoint(defaultConfig, path), CACHE_DURATION, "getRepositoryContents")

\* getRepositoryContents(path), lines 124-127
getRepositoryContents(path) ==
  makeRequest(Endpoint(defaultConfig, path), CACHE_DURATION, "getRepositoryContents")

\* getFileContent(path), lines 129-131
getFileContent(path) ==
  makeRequest(Endpoint(defaultConfig, path), LONG_CACHE_DURATION, "getFileContent")

\* (mutant) the persistent store is cleared with the map
clearCache_both ==
  /\ cache' = EmptyMap
  /\ inflight' = DetachAll(inflight)
  /\ last' = Quiet("clearCache")
  /\ localStorage' = persistentCache_clear(localStorage)
  /\ UNCHANGED <<rateLimitRemaining, rateLimitReset>>

\* clearCache(), lines 232-235
clearCache ==
  /\ cache' = EmptyMap
  /\ inflight' = DetachAll(inflight)
  /\ last' = Quiet("clearCache")
  /\ UNCHANGED <<localStorage, rateLimitRemaining, rateLimitReset>>

\* (mutant) an entry of exactly one hour counts as older than one hour
olderThanHour_ge(entry, t) == t - entry.timestamp >= ONE_HOUR

\* line 243: now - entry.timestamp > 60 * 60 * 1000
olderThanHour(entry, t) == t - entry.timestamp > ONE_HOUR

\* clearExpiredCache(), lines 237-254; a request that holds a deleted entry
\* for revalidation holds an object that is no longer in the map
clearExpiredCache ==
  LET expired == {url \in DOMAIN cache : olderThanHour(cache[url], now)}
      cleared == Cardinality(expired)
  IN /\ cache' = RemoveAll(cache, expired)
     /\ inflight' = [ i \in DOMAIN inflight |->
                        IF inflight[i] # Null /\ Url(inflight[i].endpoint) \in expired
                           /\ inflight[i].ref = "cache"
                        THEN [inflight[i] EXCEPT !.ref = "copy"]
                        ELSE inflight[i] ]
     /\ last' = Obs("clearExpiredCache", "useCache", <<>>, 0, "cleared", cleared,
                    Return(cleared), <<>>, FALSE)
     /\ UNCHANGED <<localStorage, rateLimitRemaining, rateLimitReset>>

\* ------------------------------------------------------------- getPosts
\* A getPosts call: the page asked for, the directory listing it got, the
\* sorted post files, the files of the page, the file the loop is at, the
\* posts pushed so far, how each file processed so far ended (outcomes), and
\* what the call gave its caller (result).
IdleTask ==
  [ phase |-> "idle", local |-> FALSE, page |-> 0, pageSize |-> 0,
    listing |-> <<>>, sorted |-> <<>>, files |-> <<>>, hasMore |-> FALSE,
    idx |-> 0, posts |-> <<>>, outcomes |-> <<>>, waiting |-> FALSE,
    result |-> Null, op |-> "getPosts", inner |-> Null ]

startTask(local, page, pageSize) ==
  [ IdleTask EXCEPT !.phase = "listing", !.local = local, !.page = page,
                    !.pageSize = pageSize ]

\* (mutant) the catch of preloadPosts throws the error on
preloadThen_rethrow(result) ==
  IF result.kind = "throw" THEN result ELSE Return(Null)

\* github-api.ts lines 258-262: .then(log).catch(warn) on the promise of
\* getPosts: fulfilled with undefined whatever getPosts gave
preloadThen(result) == Return(Null)

\* The call ends: its promise settles (inner: what the method itself gave)
finish(t, result) ==
  [ t EXCEPT !.phase = "done", !.waiting = FALSE, !.inner = result,
             !.result = IF t.op = "preloadPosts" THEN preloadThen(result)
                        ELSE result ]

\* (mutant) every listing failure rewrapped, its status lost
getPostsCatch_wrapAll(error) ==
  GitHubAPIError("Error fetching posts: " \o error.message, <<>>)

\* github-api.ts lines 195-200: the catch of getPosts
getPostsCatch(error) ==
  IF error.name = "GitHubAPIError" THEN error
  ELSE GitHubAPIError("Error fetching posts: " \o error.message, <<>>)

\* github-api.ts lines 158-176, resumed with the result mr of
\* getRepositoryContents: filter, sort, cut the page; with no file on the page
\* the loop is empty and the call returns (line 194)
afterListing(t, mr) ==
  IF mr.kind = "throw" THEN finish(t, Throw(getPostsCatch(mr.value)))
  ELSE IF "entries" \notin DOMAIN mr.value
  THEN finish(t, Throw(getPostsCatch(
         [name |-> "TypeError", message |-> "files.filter is not a function"])))
  ELSE
    LET files == mr.value.entries
        sorted == sort(mdxFiles(files))
        paginatedFiles == paginate(sorted, t.page, t.pageSize)
        hasMore == hasMoreOf(sorted, t.page, t.pageSize)
        t1 == [ t EXCEPT !.phase = "files", !.listing = files, !.sorted = sorted,
                         !.files = paginatedFiles, !.hasMore = hasMore,
                         !.idx = 1, !.waiting = FALSE ]
    IN IF paginatedFiles = <<>>
       THEN finish(t1, Return([posts |-> <<>>, hasMore |-> hasMore]))
       ELSE t1

\* (mutant) a failed file fails the call
afterFile_abort(t, obs) ==
  LET file == t.files[t.idx]
      mr == obs.ret
      post == IF mr.kind = "return"
              THEN parseMDXContent(mr.value.text, file.name, file.path)
              ELSE Null
      t1 == [ t EXCEPT !.posts = IF post # Null THEN Append(@, post) ELSE @,
                       !.outcomes = Append(@, IF post # Null THEN "ok" ELSE "fetch"),
                       !.idx = @ + 1, !.waiting = FALSE ]
  IN IF mr.kind = "throw" THEN finish(t1, Throw(getPostsCatch(mr.value)))
     ELSE IF t1.idx > Len(t.files)
     THEN finish(t1, Return([posts |-> t1.posts, hasMore |-> t.hasMore]))
     ELSE t1

\* github-api.ts lines 181-194, resumed with the result of getFileContent for
\* the file the loop is at: parse and push, or catch, log and go on; after the
\* last file of the page the call returns
afterFile(t, obs) ==
  LET file == t.files[t.idx]
      mr == obs.ret
      post == IF mr.kind = "return"
              THEN parseMDXContent(mr.value.text, file.name, file.path)
              ELSE Null
      outcome == IF mr.kind = "throw"
                 THEN (IF obs.outcome \in {"error", "ratelimit"} THEN "fetch"
                       ELSE "decode")
                 ELSE IF post = Null THEN "parse" ELSE "ok"
      t1 == [ t EXCEPT !.posts = IF post # Null THEN Append(@, post) ELSE @,
                       !.outcomes = Append(@, outcome),
                       !.idx = @ + 1, !.waiting = FALSE ]
  IN IF t1.idx > Len(t.files)
     THEN finish(t1, Return([posts |-> t1.posts, hasMore |-> t.hasMore]))
     ELSE t1

\* The call under way resumed with what its request gave, when it gave it
step(t, obs) ==
  IF obs.ret.kind = "pending" THEN t
  ELSE IF t.phase = "listing" THEN afterListing(t, obs.ret)
  ELSE IF t.phase = "validate"
  THEN finish(t, Return([valid |-> obs.ret.kind = "return"]))
  ELSE IF t.phase = "content" THEN finish(t, obs.ret)
  ELSE afterFile(t, obs)

settle(t, obs) == IF t.waiting THEN step(t, obs) ELSE t

\* post-loader.ts lines 83-89: the post files of the local directory
localFiles(d) ==
  LET mdx == SelectSeq(d.listing, endsWithMdx)
  IN [ i \in DOMAIN mdx |->
         [ name |-> mdx[i], path |-> <<"posts", "/", mdx[i]>>,
           fullPath |-> <<"cwd/posts", "/", mdx[i]>> ] ]

\* post-loader.ts lines 111-121: one file of the page read and parsed
localOutcome(d, file) ==
  IF file.name \in d.dirs THEN "read"
  ELSE IF parseMDXContent(d.docs[file.name], file.name, file.path) = Null
  THEN "parse" ELSE "ok"

RECURSIVE localPosts(_, _)
localPosts(d, files) ==
  IF files = <<>> THEN <<>>
  ELSE LET file == Head(files)
           rest == localPosts(d, Tail(files))
       IN IF localOutcome(d, file) = "ok"
          THEN <<parseMDXContent(d.docs[file.name], file.name, file.path)>> \o rest
          ELSE rest

\* getLocalPosts, post-loader.ts lines 76-127
getLocalPosts(page, pageSize) ==
  LET t == startTask(TRUE, page, pageSize) IN
  /\ task' =
       IF disk = Null
       THEN finish(t, Throw([ name |-> "Error",
                              message |-> "Error reading local posts: " \o "ENOENT" ]))
       ELSE LET files == sort(localFiles(disk))
                paginatedFiles == paginate(files, page, pageSize)
                hasMore == hasMoreOf(files, page, pageSize)
                posts == localPosts(disk, paginatedFiles)
            IN finish([ t EXCEPT !.listing = [i \in DOMAIN disk.listing |->
                                                [name |-> disk.listing[i]]],
                                 !.sorted = files, !.files = paginatedFiles,
                                 !.hasMore = hasMore,
                                 !.idx = Len(paginatedFiles) + 1,
                                 !.posts = posts,
                                 !.outcomes = [i \in DOMAIN paginatedFiles |->
                                                 localOutcome(disk, paginatedFiles[i])] ],
                      Return([posts |-> posts, hasMore |-> hasMore]))
  /\ last' = Quiet("getLocalPosts")
  /\ UNCHANGED <<localStorage, cache, rateLimitRemaining, rateLimitReset, inflight>>

\* GitHubAPI.getPosts, lines 156-158: up to the await of the listing
getPosts(page, pageSize) ==
  /\ getRepositoryContents(DirPath(defaultConfig))
  /\ task' = step([startTask(FALSE, page, pageSize) EXCEPT !.waiting = TRUE], last')

\* GitHubAPI.getPosts, lines 181-183: the loop calls getFileContent
nextFile ==
  /\ task.phase = "files"
  /\ ~task.waiting
  /\ getFileContent(task.files[task.idx].path)
  /\ task' = step([task EXCEPT !.waiting = TRUE], last')

\* ------------------------------------------------------------- PostLoader
\* checkLocalMode, post-loader.ts lines 36-58: on the server (fs and path
\* loaded) the posts directory of the working directory is looked for
checkLocalMode == ~hasWindow /\ disk # Null

\* (mutant) every call sent to the remote adapter
useLocal_never == FALSE

\* post-loader.ts lines 61, 69, 153, 199: if (this.isLocalMode)
useLocal == isLocalMode

\* (mutant) the mode read from the environment at every call
getMode_reprobe == IF checkLocalMode THEN "local" ELSE "remote"

\* getMode, post-loader.ts lines 207-209
getMode == IF isLocalMode THEN "local" ELSE "remote"

LocalError(message) == [name |-> "Error", message |-> message]

\* getLocalFileContent, post-loader.ts lines 129-150
getLocalFileContent(filePath) ==
  LET relativePath == IF Len(filePath) >= 2 /\ filePath[1] = "posts" /\ filePath[2] = "/"
                      THEN SubSeq(filePath, 3, Len(filePath)) ELSE filePath
      readable == /\ disk # Null
                  /\ Len(relativePath) = 1
                  /\ relativePath[1] \in DOMAIN disk.docs
                  /\ relativePath[1] \notin disk.dirs
      result == IF readable THEN Return([text |-> disk.docs[relativePath[1]]])
                ELSE Throw(LocalError("Error reading local file: " \o "ENOENT"))
  IN /\ task' = finish([IdleTask EXCEPT !.op = "getFileContent", !.local = TRUE], result)
     /\ last' = Obs("getLocalFileContent", "PostLoader", filePath, 0, "none",
                    result.value, result, <<>>, FALSE)
     /\ UNCHANGED <<localStorage, cache, rateLimitRemaining, rateLimitReset, inflight>>

\* validateLocalRepository, post-loader.ts lines 160-178
validateLocalRepository ==
  LET valid == disk # Null /\ Len(localFiles(disk)) > 0 IN
  /\ task' = finish([IdleTask EXCEPT !.op = "validateRepository", !.local = TRUE],
                    Return([valid |-> valid]))
  /\ last' = Obs("validateLocalRepository", "PostLoader", <<>>, 0, "none",
                 [valid |-> valid], Return([valid |-> valid]), <<>>, FALSE)
  /\ UNCHANGED <<localStorage, cache, rateLimitRemaining, rateLimitReset, inflight>>

\* GitHubAPI.validateRepository, github-api.ts lines 203-210: up to the await
validateRepository ==
  /\ getRepositoryContents(<<>>)
  /\ task' = step([IdleTask EXCEPT !.op = "validateRepository", !.phase = "validate",
                                   !.waiting = TRUE], last')

\* PostLoader.getFileContent on the remote adapter: up to the await
loadFileContent(filePath) ==
  /\ getFileContent(filePath)
  /\ task' = step([IdleTask EXCEPT !.op = "getFileContent", !.phase = "content",
                                   !.waiting = TRUE], last')

\* GitHubAPI.preloadPosts, github-api.ts lines 256-263: getPosts with a then
\* and a catch on its promise
preloadPosts(page, pageSize) ==
  /\ getRepositoryContents(DirPath(defaultConfig))
  /\ task' = step([startTask(FALSE, page, pageSize) EXCEPT !.op = "preloadPosts",
                                                           !.waiting = TRUE], last')

\* post-loader.ts lines 199-201: return Promise.resolve()
preloadLocal(page, pageSize) ==
  /\ task' = [IdleTask EXCEPT !.op = "preloadPosts", !.local = TRUE, !.phase = "done",
                              !.page = page, !.pageSize = pageSize,
                              !.result = Return(Null)]
  /\ last' = Quiet("preloadLocal")
  /\ UNCHANGED <<localStorage, cache, rateLimitRemaining, rateLimitReset, inflight>>

\* ------------------------------------------------------- the environment
RemainingHeaders == {None, "1"}
ResetHeaders == {None, "900"}
Repos == {Repo1, Repo2}
PostRepos == {Repo1, Repo2, Repo3, Repo4}
Disks == {Repo2, Repo3}
Pages == 1..MaxPage
PageSizes == 1..MaxPageSize
SortPool == {NameA, NameB, NameC, NameInvalid, NameUndated}

\* The directory listings over a set of names: a name is listed once
NameLists(pool) ==
  UNION { { l \in [1..n -> pool] : \A i, j \in 1..n : i # j => l[i] # l[j] } :
          n \in 0..MaxNames }

\* The parts of the state a specification leaves alone
InitStorage ==
  /\ storageRaises = FALSE
  /\ written = EmptyMap

InitParse ==
  /\ doc = Null
  /\ parsed = Null

\* ------------------------------------------------------- the configuration
\* config.ts (part_003 lines 162-249) and ConfigPanel (config-panel.tsx).
\* A URL is the sequence of its pieces: "/" is the separator the pattern looks
\* for, " " is white space, every other piece holds neither.
CONFIG_KEY == <<"feed-watcher-config">>

defaultUrl == <<"https:", "/", "/", "github.com", "/", "monokaijs", "/", "j2team-backup">>

\* defaultConfig, lines 166-171, with the URL and the path in pieces
defaultFeedConfig ==
  [ repositoryUrl |-> defaultUrl,
    owner |-> defaultConfig.owner,
    repo |-> defaultConfig.repo,
    postsPath |-> <<defaultConfig.postsPath>> ]

RECURSIVE concat(_)
concat(pieces) == IF pieces = <<>> THEN "" ELSE Head(pieces) \o concat(Tail(pieces))

\* String.prototype.trim
RECURSIVE trim(_)
trim(s) ==
  IF s = <<>> THEN s
  ELSE IF Head(s) = " " THEN trim(Tail(s))
  ELSE IF s[Len(s)] = " " THEN trim(SubSeq(s, 1, Len(s) - 1))
  ELSE s

\* [^\/]+ from position s on: the last position of the longest run without "/"
runEnd(url, s) ==
  CHOOSE j \in (s - 1)..Len(url) :
    /\ \A k \in s..j : url[k] # "/"
    /\ j = Len(url) \/ url[j + 1] = "/"

\* /github\.com\/([^\/]+)\/([^\/]+)/ matches from position i on
matchAt(url, i) ==
  /\ url[i] = "github.com"
  /\ i + 1 <= Len(url)
  /\ url[i + 1] = "/"
  /\ LET ownerEnd == runEnd(url, i + 2) IN
     /\ ownerEnd >= i + 2
     /\ ownerEnd + 1 <= Len(url)
     /\ runEnd(url, ownerEnd + 2) >= ownerEnd + 2

\* .replace(/\.git$/, ''), line 181
stripGit(run) ==
  IF run # <<>> /\ run[Len(run)] = ".git" THEN SubSeq(run, 1, Len(run) - 1) ELSE run

\* parseRepositoryUrl, lines 173-190
parseRepositoryUrl(url) ==
  LET starts == {i \in 1..Len(url) : matchAt(url, i)} IN
  IF starts = {} THEN Null
  ELSE LET i == CHOOSE x \in starts : \A y \in starts : x <= y
           ownerEnd == runEnd(url, i + 2)
           repoEnd == runEnd(url, ownerEnd + 2)
       IN [ owner |-> concat(SubSeq(url, i + 2, ownerEnd)),
            repo |-> concat(stripGit(SubSeq(url, ownerEnd + 2, repoEnd))) ]

\* validateRepositoryUrl, lines 192-195
validateRepositoryUrl(url) == parseRepositoryUrl(url) # Null

\* { ...a, ...b }
spread(a, b) == [k \in DOMAIN a \cup DOMAIN b |-> IF k \in DOMAIN b THEN b[k] ELSE a[k]]

\* getConfig, lines 197-213
getConfig(ls) ==
  IF ~hasWindow THEN defaultFeedConfig
  ELSE IF storageRaises THEN defaultFeedConfig
  ELSE IF CONFIG_KEY \in DOMAIN ls /\ parses(ls[CONFIG_KEY])
       THEN spread(defaultFeedConfig, JSON_parse(ls[CONFIG_KEY]))
       ELSE defaultFeedConfig

\* saveConfig, lines 215-237; writeOk: localStorage.setItem does not raise
saveConfig(ls, config, writeOk) ==
  IF ~hasWindow THEN ls
  ELSE
    LET currentConfig == getConfig(ls)
        merged == spread(currentConfig, config)
        parsed_ == IF "repositoryUrl" \in DOMAIN config /\ config.repositoryUrl # <<>>
                   THEN parseRepositoryUrl(config.repositoryUrl) ELSE Null
        newConfig == IF parsed_ # Null
                     THEN [merged EXCEPT !.owner = parsed_.owner, !.repo = parsed_.repo]
                     ELSE merged
    IN IF storageRaises \/ ~writeOk THEN ls
       ELSE Put(ls, CONFIG_KEY, JSON_stringify(newConfig))

\* resetConfig, lines 239-249
resetConfig(ls) ==
  IF ~hasWindow \/ storageRaises THEN ls ELSE Remove(ls, CONFIG_KEY)

\* The panel once mounted, config-panel.tsx lines 15-26
mounted(config) ==
  [ tempUrl |-> config.repositoryUrl,
    tempPostsPath |-> config.postsPath,
    validationStatus |-> "idle" ]

InitPanel == panel = mounted(defaultFeedConfig)

\* What a user may put into the URL field and into the path field
UrlGit == <<"github.com", "/", "a", "/", "b", ".git">>
UrlDeep == <<"https:", "/", "/", "github.com", "/", "a", "/", "c", "/", "tree">>
UrlLab == <<"https:", "/", "/", "gitlab.com", "/", "a", "/", "b">>
UrlNoRepo == <<"github.com", "/", "a", "/">>
UrlSpace == <<"github.com", "/", "a", "/", " ">>
UrlPadded == <<" ", "github.com", "/", "d", "/", "e", " ">>
UrlBlank == <<" ">>
Urls == {<<>>, UrlBlank, defaultUrl, UrlGit, UrlDeep, UrlLab, UrlNoRepo, UrlSpace, UrlPadded}
PostsPaths == {<<>>, <<" ">>, <<"posts">>, <<" ", "content", " ">>}

\* handleUrlChange, config-panel.tsx lines 28-32
HandleUrlChange == \E url \in Urls :
  /\ panel' = [panel EXCEPT !.tempUrl = url, !.validationStatus = "idle"]
  /\ last' = Quiet("handleUrlChange")
  /\ UNCHANGED <<now, hasWindow, localStorage, cache, rateLimitRemaining,
                 rateLimitReset, remote, inflight, isLocalMode, disk, task, names,
                 sortedNames, cacheVars, parseVars, feed>>

\* onChange of the path field, line 196
HandlePostsPathChange == \E p \in PostsPaths :
  /\ panel' = [panel EXCEPT !.tempPostsPath = p]
  /\ last' = Quiet("handlePostsPathChange")
  /\ UNCHANGED <<now, hasWindow, localStorage, cache, rateLimitRemaining,
                 rateLimitReset, remote, inflight, isLocalMode, disk, task, names,
                 sortedNames, cacheVars, parseVars, feed>>

\* validateUrl, lines 34-67
ValidateUrl ==
  /\ panel' = [panel EXCEPT !.validationStatus =
                 IF trim(panel.tempUrl) = <<>> THEN "invalid"
                 ELSE IF ~validateRepositoryUrl(panel.tempUrl) THEN "invalid"
                 ELSE "valid"]
  /\ last' = Quiet("validateUrl")
  /\ UNCHANGED <<now, hasWindow, localStorage, cache, rateLimitRemaining,
                 rateLimitReset, remote, inflight, isLocalMode, disk, task, names,
                 sortedNames, cacheVars, parseVars, feed>>

\* handleSave, lines 69-90
HandleSave == \E writeOk \in BOOLEAN :
  LET newConfig == [ repositoryUrl |-> trim(panel.tempUrl),
                     postsPath |-> IF trim(panel.tempPostsPath) = <<>>
                                   THEN <<"posts">> ELSE trim(panel.tempPostsPath) ]
  IN
  /\ IF panel.validationStatus # "valid"
     THEN /\ last' = Obs("handleSave", "ConfigPanel", <<>>, 0, "refused", Null,
                         Return(Null), <<>>, FALSE)
          /\ UNCHANGED localStorage
     ELSE /\ localStorage' = saveConfig(localStorage, newConfig, writeOk)
          /\ last' = Obs("handleSave", "ConfigPanel", <<>>, 0, "saved", newConfig,
                         Return(getConfig(localStorage')), <<>>, ~writeOk)
  /\ UNCHANGED <<now, hasWindow, cache, rateLimitRemaining, rateLimitReset, remote,
                 inflight, isLocalMode, disk, task, names, sortedNames, cacheVars,
                 panel, parseVars, feed>>

\* handleReset, lines 92-104
HandleReset ==
  /\ localStorage' = resetConfig(localStorage)
  /\ panel' = mounted(getConfig(localStorage'))
  /\ last' = Obs("handleReset", "ConfigPanel", <<>>, 0, "reset", Null,
                 Return(getConfig(localStorage')), <<>>, FALSE)
  /\ UNCHANGED <<now, hasWindow, cache, rateLimitRemaining, rateLimitReset, remote,
                 inflight, isLocalMode, disk, task, names, sortedNames, cacheVars,
                 parseVars, feed>>

\* ------------------------------------------------------------ the Newsfeed
\* The configuration the panel hands over after a save of another repository
changedFeedConfig ==
  [ repositoryUrl |-> UrlGit, owner |-> "a", repo |-> "b", postsPath |-> <<"posts">> ]

\* new PostLoader(config), post-loader.ts lines 24-28: the n-th loader built,
\* with an adapter of its own for its configuration
newPostLoader(n, config) == [id |-> n, config |-> config]

\* The component as its first render leaves it, newsfeed.tsx lines 16-25
Unmounted ==
  [ mounted |-> FALSE,
    posts |-> <<>>,
    config |-> defaultFeedConfig,
    pagination |-> [page |-> 1, hasMore |-> TRUE, loading |-> FALSE],
    error |-> "",
    postLoader |-> newPostLoader(0, defaultFeedConfig),
    loads |-> [i \in 1..MaxLoads |-> Null],
    resets |-> 0 ]

InitFeed == feed = Unmounted

\* The page in a browser that has no configuration stored yet
InitConfig ==
  /\ now = 0
  /\ hasWindow = TRUE
  /\ storageRaises = FALSE
  /\ localStorage = EmptyMap
  /\ written = EmptyMap
  /\ cache = EmptyMap
  /\ rateLimitRemaining = 60
  /\ rateLimitReset = 0
  /\ remote = Repo1
  /\ inflight = [i \in 1..MaxInflight |-> Null]
  /\ last = Quiet("init")
  /\ task = IdleTask
  /\ isLocalMode = FALSE
  /\ disk = Null
  /\ names = <<>>
  /\ sortedNames = <<>>
  /\ InitPanel
  /\ InitFeed
  /\ InitParse

\* ------------------------------------------------------ the parser on its own
\* The documents: any set of the required fields, front matter well-formed or not
Docs == [fields : SUBSET requiredFields, yamlOk : BOOLEAN, base64Ok : {TRUE}]
ParsedNames == {NameA, NameUndated}
raised(r) == "kind" \in DOMAIN r

\* parseMDXContent(content, fileName, path) is called
Parse ==
  LET r == parseMDXContent(doc, names[1], DirPath(defaultConfig) \o <<names[1]>>) IN
  /\ parsed' = r
  /\ last' = Obs("parseMDXContent", "mdx-parser", <<>>, 0,
                 IF raised(r) THEN "raised" ELSE IF r = Null THEN "null" ELSE "post",
                 r, IF raised(r) THEN r ELSE Return(r), <<>>, r = Null)
  /\ UNCHANGED <<now, hasWindow, localStorage, cache, rateLimitRemaining,
                 rateLimitReset, remote, inflight, isLocalMode, disk, task, names,
                 sortedNames, cacheVars, panel, doc, feed>>

InitParser ==
  /\ now = 0
  /\ hasWindow = TRUE
  /\ localStorage = EmptyMap
  /\ cache = EmptyMap
  /\ rateLimitRemaining = 60
  /\ rateLimitReset = 0
  /\ remote = Repo1
  /\ inflight = [i \in 1..MaxInflight |-> Null]
  /\ last = Quiet("init")
  /\ task = IdleTask
  /\ isLocalMode = FALSE
  /\ disk = Null
  /\ names \in {<<n>> : n \in ParsedNames}
  /\ sortedNames = <<>>
  /\ InitStorage
  /\ InitPanel
  /\ InitFeed
  /\ doc \in Docs
  /\ parsed = Null

\* -------------------------------------------- the persistent store on its own
\* The keys the callers of the store use here, and the keys of the entries an
\* earlier session left behind, one short of the cap
ActiveKeys == {<<"key", maxSize>>, <<"key", maxSize + 1>>}
Fillers == 1..(maxSize - 1)
TTLs == {CACHE_DURATION, LONG_CACHE_DURATION}
SomeData == [v |-> "x"]
SecurityError == [name |-> "SecurityError", message |-> "The operation is insecure."]

\* Entries written at distinct earlier times, none of them expired yet
Prefilled ==
  [ k \in {getKey(<<"key", i>>) : i \in Fillers} |->
      JSON_stringify([ data |-> SomeData, timestamp |-> k[2][2], etag |-> Null,
                       expiresAt |-> k[2][2] + defaultTTL ]) ]

\* What stands of the entries written, after a step that left the storage ls:
\* an entry that is gone from ls before its expiry without a delete, a clear
\* or a write to its key was evicted by a cleanup
standing(w, ls, t) ==
  [ k \in DOMAIN w |->
      IF w[k] # Null /\ getKey(k) \notin DOMAIN ls /\ ~isExpired(w[k].entry, t)
      THEN [w[k] EXCEPT !.evicted = TRUE]
      ELSE w[k] ]

\* persistentCache.set(key, data, ttl)
CacheSet == \E key \in ActiveKeys, ttl \in TTLs, writeOk \in BOOLEAN :
  /\ IF set_raises
     THEN /\ last' = Obs("set", "persistentCache", key, ttl, "raised", Null,
                         Throw(SecurityError), <<>>, TRUE)
          /\ UNCHANGED <<localStorage, written>>
     ELSE LET entry == [ data |-> SomeData, timestamp |-> now, etag |-> Null,
                         expiresAt |-> now + ttl ]
              wrote == hasWindow /\ writeOk
          IN /\ localStorage' \in persistentCache_set(localStorage, key, SomeData, ttl,
                                                      Null, now, writeOk)
             /\ written' = standing(
                  IF wrote
                  THEN [written EXCEPT ![key] = [entry |-> entry, evicted |-> FALSE]]
                  ELSE written, localStorage', now)
             /\ last' = Obs("set", "persistentCache", key, ttl,
                            IF wrote THEN "written" ELSE "noop", entry,
                            Return(Null), <<>>, hasWindow /\ ~writeOk)
  /\ UNCHANGED <<now, hasWindow, cache, rateLimitRemaining, rateLimitReset, remote,
                 inflight, isLocalMode, disk, task, names, sortedNames,
                 storageRaises, panel, parseVars, feed>>

\* persistentCache.get(key)
CacheGet == \E key \in ActiveKeys :
  /\ IF get_raises
     THEN /\ last' = Obs("get", "persistentCache", key, 0, "raised", Null,
                         Throw(SecurityError), <<>>, TRUE)
          /\ UNCHANGED <<localStorage, written>>
     ELSE LET got == persistentCache_get(localStorage, key, now) IN
          /\ localStorage' = got.ls
          /\ written' = IF got.value = Null THEN [written EXCEPT ![key] = Null]
                        ELSE written
          /\ last' = Obs("get", "persistentCache", key, 0,
                         IF got.value = Null THEN "miss" ELSE "hit", got.value,
                         Return(got.value), <<>>, FALSE)
  /\ UNCHANGED <<now, hasWindow, cache, rateLimitRemaining, rateLimitReset, remote,
                 inflight, isLocalMode, disk, task, names, sortedNames,
                 storageRaises, panel, parseVars, feed>>

\* persistentCache.delete(key)
CacheDelete == \E key \in ActiveKeys :
  /\ IF delete_raises
     THEN /\ last' = Obs("delete", "persistentCache", key, 0, "raised", Null,
                         Throw(SecurityError), <<>>, FALSE)
          /\ UNCHANGED <<localStorage, written>>
     ELSE /\ localStorage' = persistentCache_delete(localStorage, key)
          /\ written' = [written EXCEPT ![key] = Null]
          /\ last' = Obs("delete", "persistentCache", key, 0, "done", Null,
                         Return(Null), <<>>, FALSE)
  /\ UNCHANGED <<now, hasWindow, cache, rateLimitRemaining, rateLimitReset, remote,
                 inflight, isLocalMode, disk, task, names, sortedNames,
                 storageRaises, panel, parseVars, feed>>

\* persistentCache.clear()
CacheClear ==
  /\ IF clear_raises
     THEN /\ last' = Obs("clear", "persistentCache", <<>>, 0, "raised", Null,
                         Throw(SecurityError), <<>>, FALSE)
          /\ UNCHANGED <<localStorage, written>>
     ELSE /\ localStorage' = persistentCache_clear(localStorage)
          /\ written' = [k \in DOMAIN written |-> Null]
          /\ last' = Obs("clear", "persistentCache", <<>>, 0, "done", Null,
                         Return(Null), <<>>, FALSE)
  /\ UNCHANGED <<now, hasWindow, cache, rateLimitRemaining, rateLimitReset, remote,
                 inflight, isLocalMode, disk, task, names, sortedNames,
                 storageRaises, panel, parseVars, feed>>

\* persistentCache.getStats()
CacheStats ==
  /\ last' = IF getStats_raises
             THEN Obs("getStats", "persistentCache", <<>>, 0, "raised", Null,
                      Throw(SecurityError), <<>>, FALSE)
             ELSE Obs("getStats", "persistentCache", <<>>, 0, "done",
                      getStats(localStorage), Return(getStats(localStorage)),
                      <<>>, FALSE)
  /\ UNCHANGED <<now, hasWindow, localStorage, cache, rateLimitRemaining,
                 rateLimitReset, remote, inflight, isLocalMode, disk, task, names,
                 sortedNames, cacheVars, panel, parseVars, feed>>

\* Something else writes a value that is no JSON under a cache key
Corrupt == \E key \in ActiveKeys :
  /\ hasWindow
  /\ ~storageRaises
  /\ localStorage' = Put(localStorage, getKey(key), Garbage)
  /\ written' = [written EXCEPT ![key] = Null]
  /\ last' = Quiet("corrupt")
  /\ UNCHANGED <<now, hasWindow, cache, rateLimitRemaining, rateLimitReset, remote,
                 inflight, isLocalMode, disk, task, names, sortedNames,
                 storageRaises, panel, parseVars, feed>>

\* A page of a later session: the store holds what the earlier one left
InitCache ==
  /\ now = Tick
  /\ hasWindow \in BOOLEAN
  /\ storageRaises \in (IF hasWindow THEN BOOLEAN ELSE {FALSE})
  /\ localStorage \in (IF hasWindow THEN {EmptyMap, Prefilled} ELSE {EmptyMap})
  /\ written = [k \in ActiveKeys |-> Null]
  /\ cache = EmptyMap
  /\ rateLimitRemaining = 60
  /\ rateLimitReset = 0
  /\ remote = Repo1
  /\ inflight = [i \in 1..MaxInflight |-> Null]
  /\ last = Quiet("init")
  /\ task = IdleTask
  /\ isLocalMode = FALSE
  /\ disk = Null
  /\ names = <<>>
  /\ sortedNames = <<>>
  /\ InitPanel
  /\ InitFeed
  /\ InitParse

\* The paths the callers of GitHubAPI ask for
ListedPaths == {DirPath(defaultConfig)}
ContentPaths == {DirPath(defaultConfig)}

\* new GitHubAPI(config) in a page that has just loaded
InitAPI ==
  /\ now = 0
  /\ localStorage = EmptyMap
  /\ cache = EmptyMap
  /\ rateLimitRemaining = 60
  /\ rateLimitReset = 0
  /\ inflight = [i \in 1..MaxInflight |-> Null]
  /\ last = Quiet("init")
  /\ task = IdleTask

Init ==
  /\ InitAPI
  /\ remote = Repo1
  /\ hasWindow \in BOOLEAN
  /\ isLocalMode = FALSE
  /\ disk = Null
  /\ names = <<>>
  /\ sortedNames = <<>>
  /\ InitStorage
  /\ InitPanel
  /\ InitFeed
  /\ InitParse

\* new PostLoader(config): checkLocalMode, post-loader.ts lines 36-58
InitPosts ==
  /\ InitAPI
  /\ remote \in PostRepos
  /\ hasWindow \in BOOLEAN
  /\ disk \in (IF hasWindow THEN {Null} ELSE Disks \cup {Null})
  /\ isLocalMode = checkLocalMode
  /\ names = <<>>
  /\ sortedNames = <<>>
  /\ InitStorage
  /\ InitPanel
  /\ InitFeed
  /\ InitParse

\* A directory listing about to be sorted
InitSort ==
  /\ InitAPI
  /\ remote = Repo1
  /\ hasWindow = TRUE
  /\ isLocalMode = FALSE
  /\ disk = Null
  /\ names \in NameLists(SortPool)
  /\ sortedNames = <<>>
  /\ InitStorage
  /\ InitPanel
  /\ InitFeed
  /\ InitParse

\* ------------------------------------------------- the loader and its callers
\* The file paths a caller of PostLoader.getFileContent passes
LoaderPaths == {<<"posts", "/", NameA>>, FilePath(defaultConfig, NameA)}

\* The page the callers of the loader ask for
LoaderPage == 1
LoaderPageSize == 1

Idle == task.phase \in {"idle", "done"}

\* PostLoader.getFileContent, post-loader.ts lines 68-74
LoadFile == \E filePath \in LoaderPaths :
  /\ Idle
  /\ IF useLocal THEN getLocalFileContent(filePath) ELSE loadFileContent(filePath)
  /\ UNCHANGED <<now, hasWindow, remote, isLocalMode, disk, otherParts>>

\* PostLoader.validateRepository, post-loader.ts lines 152-158
Validate ==
  /\ Idle
  /\ IF useLocal THEN validateLocalRepository ELSE validateRepository
  /\ UNCHANGED <<now, hasWindow, remote, isLocalMode, disk, otherParts>>

\* PostLoader.preloadPosts, post-loader.ts lines 198-205
Preload == \E page \in {LoaderPage}, pageSize \in {LoaderPageSize} :
  /\ Idle
  /\ IF useLocal THEN preloadLocal(page, pageSize) ELSE preloadPosts(page, pageSize)
  /\ UNCHANGED <<now, hasWindow, remote, isLocalMode, disk, otherParts>>

\* PostLoader.getPosts, post-loader.ts lines 60-66
LoadPosts == \E page \in {LoaderPage}, pageSize \in {LoaderPageSize} :
  /\ Idle
  /\ IF useLocal THEN getLocalPosts(page, pageSize) ELSE getPosts(page, pageSize)
  /\ UNCHANGED <<now, hasWindow, remote, isLocalMode, disk, otherParts>>

\* PostLoader.getMode
GetMode ==
  /\ last' = Obs("getMode", "PostLoader", <<>>, 0, "none", [mode |-> getMode],
                 Return([mode |-> getMode]), <<>>, FALSE)
  /\ UNCHANGED <<now, hasWindow, localStorage, cache, rateLimitRemaining,
                 rateLimitReset, remote, inflight, isLocalMode, disk, task, otherParts>>

\* PostLoader.updateConfig(config), post-loader.ts lines 30-34, with the
\* configuration in force: the memory cache is cleared and the mode probed
UpdateConfig ==
  /\ cache' = EmptyMap
  /\ inflight' = DetachAll(inflight)
  /\ isLocalMode' = checkLocalMode
  /\ last' = Obs("updateConfig", "PostLoader", <<>>, 0, "none",
                 [mode |-> IF checkLocalMode THEN "local" ELSE "remote"],
                 Return(Null), <<>>, FALSE)
  /\ UNCHANGED <<now, hasWindow, localStorage, rateLimitRemaining, rateLimitReset,
                 remote, disk, task, otherParts>>

\* On the server the posts directory appears, changes or goes
PostsDirChange ==
  /\ ~hasWindow
  /\ disk' \in (Disks \cup {Null}) \ {disk}
  /\ last' = Quiet("postsDirChange")
  /\ UNCHANGED <<now, hasWindow, localStorage, cache, rateLimitRemaining,
                 rateLimitReset, remote, inflight, isLocalMode, task, otherParts>>

\* new PostLoader(config), post-loader.ts lines 24-28
InitLoader ==
  /\ InitAPI
  /\ remote = Repo1
  /\ hasWindow \in BOOLEAN
  /\ disk \in (IF hasWindow THEN {Null} ELSE Disks \cup {Null})
  /\ isLocalMode = checkLocalMode
  /\ names = <<>>
  /\ sortedNames = <<>>
  /\ InitStorage
  /\ InitPanel
  /\ InitFeed
  /\ InitParse

\* Date.now() moves on
Advance ==
  /\ now + Tick <= MaxTime
  /\ now' = now + Tick
  /\ last' = Quiet("advance")
  /\ UNCHANGED <<hasWindow, localStorage, cache, rateLimitRemaining, rateLimitReset,
                 remote, inflight, isLocalMode, disk, task, otherParts>>

\* Date.now() moves on while pages are loaded
AdvancePosts ==
  /\ now + Tick <= MaxPostsTime
  /\ now' = now + Tick
  /\ last' = Quiet("advance")
  /\ UNCHANGED <<hasWindow, localStorage, cache, rateLimitRemaining, rateLimitReset,
                 remote, inflight, isLocalMode, disk, task, otherParts>>

\* The repository gets a commit
RemoteChange ==
  /\ remote' \in Repos \ {remote}
  /\ last' = Quiet("remoteChange")
  /\ UNCHANGED <<now, hasWindow, localStorage, cache, rateLimitRemaining,
                 rateLimitReset, inflight, isLocalMode, disk, task, names,
                 sortedNames, cacheVars, panel, parseVars, feed>>

\* The local posts directory changes, or goes
DiskChange ==
  /\ isLocalMode
  /\ disk' \in (Disks \cup {Null}) \ {disk}
  /\ last' = Quiet("diskChange")
  /\ UNCHANGED <<now, hasWindow, localStorage, cache, rateLimitRemaining,
                 rateLimitReset, remote, inflight, isLocalMode, task, names,
                 sortedNames, cacheVars, panel, parseVars, feed>>

CallList == \E path \in ListedPaths :
  getRepositoryContents(path)
  /\ UNCHANGED <<now, hasWindow, remote, isLocalMode, disk, task, otherParts>>
CallContent == \E path \in ContentPaths :
  getFileContent(path)
  /\ UNCHANGED <<now, hasWindow, remote, isLocalMode, disk, task, otherParts>>
FetchResolves == \E i \in DOMAIN inflight, remainingHeader \in RemainingHeaders,
                    resetHeader \in ResetHeaders :
  \E status \in {200, 304, 403, 404, 500} :
    /\ fetchResolves(i, status, remainingHeader, resetHeader)
    /\ task' = settle(task, last')
    /\ UNCHANGED <<now, hasWindow, remote, isLocalMode, disk, otherParts>>
FetchRejects == \E i \in DOMAIN inflight :
  /\ fetchRejects(i)
  /\ task' = settle(task, last')
  /\ UNCHANGED <<now, hasWindow, remote, isLocalMode, disk, otherParts>>
JsonResolves == \E i \in DOMAIN inflight, writeOk \in BOOLEAN :
  /\ jsonResolves(i, writeOk)
  /\ task' = settle(task, last')
  /\ UNCHANGED <<now, hasWindow, remote, isLocalMode, disk, otherParts>>
JsonRejects == \E i \in DOMAIN inflight :
  /\ jsonRejects(i)
  /\ task' = settle(task, last')
  /\ UNCHANGED <<now, hasWindow, remote, isLocalMode, disk, otherParts>>
ClearCache ==
  clearCache
  /\ UNCHANGED <<now, hasWindow, remote, isLocalMode, disk, task, otherParts>>

\* PostLoader.getPosts, post-loader.ts lines 60-66
GetPosts == \E page \in Pages, pageSize \in PageSizes :
  /\ task.phase \in {"idle", "done"}
  /\ \/ isLocalMode /\ getLocalPosts(page, pageSize)
     \/ ~isLocalMode /\ getPosts(page, pageSize)
  /\ UNCHANGED <<now, hasWindow, remote, isLocalMode, disk, otherParts>>

NextFile ==
  /\ nextFile
  /\ UNCHANGED <<now, hasWindow, remote, isLocalMode, disk, otherParts>>

\* files.sort(...) on a listing
SortNames ==
  /\ names # <<>>
  /\ sortedNames = <<>>
  /\ sortedNames' = sort([i \in DOMAIN names |-> [name |-> names[i]]])
  /\ last' = Quiet("sort")
  /\ UNCHANGED <<now, hasWindow, localStorage, cache, rateLimitRemaining,
                 rateLimitReset, remote, inflight, isLocalMode, disk, task, names,
                 cacheVars, panel, parseVars, feed>>

\* The clock of a long session moves on by half hours
AdvanceLong ==
  /\ now + LONG_CACHE_DURATION <= MaxExpiryTime
  /\ now' = now + LONG_CACHE_DURATION
  /\ last' = Quiet("advance")
  /\ UNCHANGED <<hasWindow, localStorage, cache, rateLimitRemaining, rateLimitReset,
                 remote, inflight, isLocalMode, disk, task, otherParts>>

\* useCache: the interval calls postLoader.clearExpiredCache()
ClearExpired ==
  clearExpiredCache
  /\ UNCHANGED <<now, hasWindow, remote, isLocalMode, disk, task, otherParts>>

\* A post file is asked for, next to the listing
CallFile ==
  getFileContent(FilePath(defaultConfig, NameA))
  /\ UNCHANGED <<now, hasWindow, remote, isLocalMode, disk, task, otherParts>>

NextExpiry ==
  \/ AdvanceLong
  \/ CallList
  \/ CallFile
  \/ FetchResolves
  \/ FetchRejects
  \/ JsonResolves
  \/ JsonRejects
  \/ ClearExpired

SpecExpiry == Init /\ [][NextExpiry]_vars

\* A page whose components ask for the listing at the same time
InitRace ==
  /\ now = 0
  /\ localStorage = EmptyMap
  /\ cache = EmptyMap
  /\ rateLimitRemaining = 60
  /\ rateLimitReset = 0
  /\ inflight = [i \in 1..RaceInflight |-> Null]
  /\ last = Quiet("init")
  /\ task = IdleTask
  /\ remote = Repo1
  /\ hasWindow \in BOOLEAN
  /\ isLocalMode = FALSE
  /\ disk = Null
  /\ names = <<>>
  /\ sortedNames = <<>>
  /\ InitStorage
  /\ InitPanel
  /\ InitFeed
  /\ InitParse

NextRace ==
  \/ Advance
  \/ RemoteChange
  \/ CallList
  \/ FetchResolves
  \/ FetchRejects
  \/ JsonResolves
  \/ JsonRejects

SpecRace == InitRace /\ [][NextRace]_vars

\* Callers that pass any page number and page size, zero and negative ones
\* included (the parameters are plain numbers, nothing narrows them)
ArgPages == (0 - BadArg)..1
ArgPageSizes == (0 - BadArg)..MaxPageSize

GetPostsAny == \E page \in ArgPages, pageSize \in ArgPageSizes :
  /\ task.phase \in {"idle", "done"}
  /\ \/ isLocalMode /\ getLocalPosts(page, pageSize)
     \/ ~isLocalMode /\ getPosts(page, pageSize)
  /\ UNCHANGED <<now, hasWindow, remote, isLocalMode, disk, otherParts>>

NextArgs ==
  \/ GetPostsAny
  \/ NextFile
  \/ FetchResolves
  \/ FetchRejects
  \/ JsonResolves
  \/ JsonRejects

SpecArgs == InitPosts /\ [][NextArgs]_vars

\* Texts of a post file: up to MaxPieces pieces, each an entity, the tail of
\* an entity, or plain characters
MaxPieces == 2
TextPieces ==
  { <<"&", "a", "m", "p", ";">>, <<"&", "l", "t", ";">>, <<"l", "t", ";">>,
    <<"#", "3", "9", ";">>, <<"&", "n", "b", "s", "p", ";">>, <<"&">>, <<"x">>,
    <<"&", "x", ";">> }
RECURSIVE TextsOf(_)
TextsOf(n) ==
  IF n = 0 THEN {<<>>}
  ELSE LET shorter == TextsOf(n - 1) IN
       shorter \cup {t \o piece : t \in shorter, piece \in TextPieces}
Texts == TextsOf(MaxPieces)

\* parseMDXContent, line 46: the content of the file is decoded
DecodeContent ==
  /\ parsed = Null
  /\ parsed' = [stage |-> "content", text |-> decodeHtmlEntities(doc)]
  /\ last' = Obs("decodeContent", "mdx-parser", <<>>, 0, "decoded", Null, Null,
                 <<>>, FALSE)
  /\ UNCHANGED <<now, hasWindow, localStorage, cache, rateLimitRemaining,
                 rateLimitReset, remote, inflight, isLocalMode, disk, task, names,
                 sortedNames, cacheVars, panel, doc, feed>>

\* parseMDXContent, lines 59-62 and 76: a field of the decoded content (title,
\* author, feedName), or the decoded body for the preview, is decoded again
DecodeField ==
  /\ parsed # Null
  /\ parsed.stage = "content"
  /\ parsed' = [stage |-> "field", text |-> decodeHtmlEntities(parsed.text)]
  /\ last' = Obs("decodeField", "mdx-parser", <<>>, 0, "decoded", Null, Null,
                 <<>>, FALSE)
  /\ UNCHANGED <<now, hasWindow, localStorage, cache, rateLimitRemaining,
                 rateLimitReset, remote, inflight, isLocalMode, disk, task, names,
                 sortedNames, cacheVars, panel, doc, feed>>

InitDecode ==
  /\ InitAPI
  /\ remote = Repo1
  /\ hasWindow = TRUE
  /\ isLocalMode = FALSE
  /\ disk = Null
  /\ names = <<>>
  /\ sortedNames = <<>>
  /\ InitStorage
  /\ InitPanel
  /\ InitFeed
  /\ doc \in Texts
  /\ parsed = Null

NextDecode ==
  \/ DecodeContent
  \/ DecodeField

SpecDecode == InitDecode /\ [][NextDecode]_vars

\* First paragraphs of about the limit's length, of which the first few code
\* points lie outside the basic plane; and the empty one
Paragraph(n, astral) == [i \in 1..n |-> IF i <= astral THEN "astral" ELSE "a"]
Paragraphs ==
  {<<>>} \cup { Paragraph(n, k) : n \in (PREVIEW_LIMIT - MaxSlack)..(PREVIEW_LIMIT + MaxSlack),
                                  k \in 0..MaxAstral }

\* parseMDXContent, line 73: contentPreview = extractContentPreview(...)
ExtractPreview ==
  /\ parsed = Null
  /\ parsed' = [preview |-> limitPreview(doc)]
  /\ last' = Obs("extractContentPreview", "mdx-parser", <<>>, 0, "preview", Null,
                 Null, <<>>, FALSE)
  /\ UNCHANGED <<now, hasWindow, localStorage, cache, rateLimitRemaining,
                 rateLimitReset, remote, inflight, isLocalMode, disk, task, names,
                 sortedNames, cacheVars, panel, doc, feed>>

InitPreview ==
  /\ InitAPI
  /\ remote = Repo1
  /\ hasWindow = TRUE
  /\ isLocalMode = FALSE
  /\ disk = Null
  /\ names = <<>>
  /\ sortedNames = <<>>
  /\ InitStorage
  /\ InitPanel
  /\ InitFeed
  /\ doc \in Paragraphs
  /\ parsed = Null

NextPreview == ExtractPreview

SpecPreview == InitPreview /\ [][NextPreview]_vars

\* A session in which the cache is also cleared, swept and the configuration
\* changed
NextSession ==
  \/ Advance
  \/ RemoteChange
  \/ CallList
  \/ CallContent
  \/ FetchResolves
  \/ FetchRejects
  \/ JsonResolves
  \/ JsonRejects
  \/ ClearCache
  \/ ClearExpired
  \/ UpdateConfig

SpecSession == Init /\ [][NextSession]_vars

Next ==
  \/ Advance
  \/ RemoteChange
  \/ CallList
  \/ CallContent
  \/ FetchResolves
  \/ FetchRejects
  \/ JsonResolves
  \/ JsonRejects
  \/ ClearCache

Spec == Init /\ [][Next]_vars

NextPosts ==
  \/ AdvancePosts
  \/ DiskChange
  \/ GetPosts
  \/ NextFile
  \/ FetchResolves
  \/ FetchRejects
  \/ JsonResolves
  \/ JsonRejects

SpecPosts == InitPosts /\ [][NextPosts]_vars

NextSort == SortNames

NextCache ==
  \/ Advance
  \/ CacheSet
  \/ CacheGet
  \/ CacheDelete
  \/ CacheClear
  \/ CacheStats
  \/ Corrupt

SpecCache == InitCache /\ [][NextCache]_vars

NextLoader ==
  \/ PostsDirChange
  \/ UpdateConfig
  \/ GetMode
  \/ LoadPosts
  \/ LoadFile
  \/ Validate
  \/ Preload
  \/ NextFile
  \/ FetchResolves
  \/ FetchRejects
  \/ JsonResolves
  \/ JsonRejects

SpecLoader == InitLoader /\ [][NextLoader]_vars

NextParser == Parse

SpecParser == InitParser /\ [][NextParser]_vars

NextConfig ==
  \/ HandleUrlChange
  \/ HandlePostsPathChange
  \/ ValidateUrl
  \/ HandleSave
  \/ HandleReset

SpecConfig == InitConfig /\ [][NextConfig]_vars

SpecSort == InitSort /\ [][NextSort]_vars

\* ================================================================ claims
\* Helpers of the claims: the call a step started, and what the tiers held
\* for it before the step.
Started == last'.op = "makeRequest"
             /\ last'.outcome \in {"memory", "persistent", "ratelimit", "fetch"}
MemoryHolds(e, d) ==
  /\ <<GITHUB_API_BASE, e>> \in DOMAIN cache
  /\ now - cache[<<GITHUB_API_BASE, e>>].timestamp < d
StoreKey(e) == <<"feed-watcher-cache:", <<"api:", e>>>>
StoreHolds(e, d) ==
  /\ hasWindow
  /\ StoreKey(e) \in DOMAIN localStorage
  /\ now - localStorage[StoreKey(e)].json.timestamp < d
StoreUnexpired(e) == now <= localStorage[StoreKey(e)].json.expiresAt

\* C1 (as stated): a request finds the memory cache first, then the persistent
\* store, then the network; an entry of either tier with now - timestamp <
\* duration is returned without a network call, and a persistent hit is copied
\* into the memory cache.
C1_AnyFreshEntryHits ==
  [][ Started =>
        LET e == last'.endpoint
            d == last'.duration
        IN /\ MemoryHolds(e, d) =>
                /\ last'.outcome = "memory"
                /\ last'.value = cache[<<GITHUB_API_BASE, e>>].data
                /\ inflight' = inflight
           /\ (~MemoryHolds(e, d) /\ StoreHolds(e, d)) =>
                /\ last'.outcome = "persistent"
                /\ last'.value = localStorage[StoreKey(e)].json.data
                /\ inflight' = inflight
                /\ cache'[<<GITHUB_API_BASE, e>>] = localStorage[StoreKey(e)].json
    ]_vars

\* C1 (amended): the same, for a persistent entry that is also unexpired
\* (now <= expiresAt); the tiers are consulted in the order memory, persistent
\* store, network, and the network is reached only when neither tier hits.
C1_LookupOrder ==
  [][ Started =>
        LET e == last'.endpoint
            d == last'.duration
        IN /\ MemoryHolds(e, d) =>
                /\ last'.outcome = "memory"
                /\ last'.value = cache[<<GITHUB_API_BASE, e>>].data
                /\ inflight' = inflight
                /\ cache' = cache /\ localStorage' = localStorage
           /\ (~MemoryHolds(e, d) /\ StoreHolds(e, d) /\ StoreUnexpired(e)) =>
                /\ last'.outcome = "persistent"
                /\ last'.value = localStorage[StoreKey(e)].json.data
                /\ inflight' = inflight
                /\ cache'[<<GITHUB_API_BASE, e>>] = localStorage[StoreKey(e)].json
           /\ last'.outcome \in {"ratelimit", "fetch"} =>
                /\ ~MemoryHolds(e, d)
                /\ ~(StoreHolds(e, d) /\ StoreUnexpired(e))
    ]_vars

\* C1 witness: a request was served by the persistent store and its entry is
\* now in the memory cache.
C1_Witness ==
  /\ last.op = "makeRequest"
  /\ last.outcome = "persistent"
  /\ <<GITHUB_API_BASE, last.endpoint>> \in DOMAIN cache
  /\ cache[<<GITHUB_API_BASE, last.endpoint>>].data = last.value

\* The gate of the rate limit is closed in the current state.
GateClosed == rateLimitRemaining <= 1 /\ now < rateLimitReset * 1000
RateLimitError ==
  [ name |-> "GitHubAPIError",
    message |-> "Rate limit exceeded. Please try again later.", status |-> <<>> ]

\* C2 (as stated): with the gate closed no network call is issued; a request
\* not served by a cache tier fails with the rate-limit error and changes
\* neither cache tier nor the counters.
C2_GateChangesNothing ==
  [][ (Started /\ GateClosed) =>
        /\ last'.outcome # "fetch"
        /\ inflight' = inflight
        /\ last'.outcome \notin {"memory", "persistent"} =>
             /\ last'.outcome = "ratelimit"
             /\ last'.value = RateLimitError
             /\ last'.ret = [kind |-> "throw", value |-> RateLimitError]
             /\ cache' = cache
             /\ localStorage' = localStorage
             /\ rateLimitRemaining' = rateLimitRemaining
             /\ rateLimitReset' = rateLimitReset
    ]_vars

\* C2 (amended): the same, except that the persistent store may lose the
\* request's own entry when that entry has expired (now > expiresAt): the
\* lookup that precedes the gate deletes it.
C2_GateNoFetch ==
  [][ (Started /\ GateClosed) =>
        /\ last'.outcome # "fetch"
        /\ inflight' = inflight
        /\ last'.outcome \notin {"memory", "persistent"} =>
             /\ last'.outcome = "ratelimit"
             /\ last'.value = RateLimitError
             /\ last'.ret = [kind |-> "throw", value |-> RateLimitError]
             /\ cache' = cache
             /\ rateLimitRemaining' = rateLimitRemaining
             /\ rateLimitReset' = rateLimitReset
             /\ \/ localStorage' = localStorage
                \/ /\ StoreKey(last'.endpoint) \in DOMAIN localStorage
                   /\ now > localStorage[StoreKey(last'.endpoint)].json.expiresAt
                   /\ localStorage' =
                        [ k \in DOMAIN localStorage \ {StoreKey(last'.endpoint)} |->
                            localStorage[k] ]
    ]_vars

\* C2 witness: a request has just failed at the closed gate.
C2_Witness ==
  /\ last.op = "makeRequest"
  /\ last.outcome = "ratelimit"
  /\ GateClosed

\* The in-flight call a step completed.
Completed(i) == inflight[i] # Null /\ inflight'[i] = Null

\* C3 (as stated): a 304 for a request that has a cached entry (the memory
\* entry, else the persistent entry) returns that entry's payload and sets the
\* entry's timestamp to the current time, so that the next identical request
\* within the duration is served from cache.
C3_RevalidationRefreshes ==
  [][ (last'.op = "makeRequest" /\ last'.outcome = "304") =>
        LET e == last'.endpoint
            inMemory == <<GITHUB_API_BASE, e>> \in DOMAIN cache
            inStore == hasWindow /\ StoreKey(e) \in DOMAIN localStorage
                         /\ StoreUnexpired(e)
        IN (inMemory \/ inStore) =>
             /\ last'.value = IF inMemory THEN cache[<<GITHUB_API_BASE, e>>].data
                              ELSE localStorage[StoreKey(e)].json.data
             /\ IF inMemory
                THEN /\ <<GITHUB_API_BASE, e>> \in DOMAIN cache'
                     /\ cache'[<<GITHUB_API_BASE, e>>].timestamp = now
                ELSE \/ /\ <<GITHUB_API_BASE, e>> \in DOMAIN cache'
                        /\ cache'[<<GITHUB_API_BASE, e>>].timestamp = now
                     \/ /\ StoreKey(e) \in DOMAIN localStorage'
                        /\ localStorage'[StoreKey(e)].json.timestamp = now
    ]_vars

Listed ==
  \/ task.phase = "files"
  \/ task.phase = "done" /\ task.result.kind = "return"
RECURSIVE PagesUpTo(_, _, _)
PagesUpTo(S, P, q) ==
  IF q = 0 THEN <<>> ELSE PagesUpTo(S, P, q - 1) \o paginate(S, q, P)
LastPage(N, P) == (N + P - 1) \div P
Recognized(t) ==
  IF t.local
  THEN {i \in DOMAIN t.listing : endsWithMdx(t.listing[i].name)}
  ELSE {i \in DOMAIN t.listing :
          t.listing[i].type = "file" /\ endsWithMdx(t.listing[i].name)}
OkFiles(t) ==
  SelectSeq([i \in DOMAIN t.outcomes |-> i], LAMBDA i : t.outcomes[i] = "ok")

\* C6: for the sorted listing S of a call (N files) and its page size P, the
\* page the call works on is the slice of its page number, the slices of the
\* pages 1..ceil(N/P) are pairwise disjoint, none of them is empty, and one
\* after the other in page order they are S.
C6_PagesPartition ==
  Listed =>
    LET S == task.sorted
        P == task.pageSize
        K == LastPage(Len(S), P)
    IN /\ task.files = paginate(S, task.page, P)
       /\ PagesUpTo(S, P, K) = S
       /\ \A q \in 1..K : paginate(S, q, P) # <<>>
       /\ \A q1, q2 \in 1..K :
            q1 # q2 =>
              \A i \in DOMAIN paginate(S, q1, P), j \in DOMAIN paginate(S, q2, P) :
                paginate(S, q1, P)[i] # paginate(S, q2, P)[j]

\* C6 witness: a call has returned the second, shorter page of a listing of
\* three post files cut in pages of two.
C6_Witness ==
  /\ task.phase = "done"
  /\ task.result.kind = "return"
  /\ Len(task.sorted) = 3
  /\ task.pageSize = 2
  /\ task.page = 2
  /\ Len(task.files) = 1

\* C7: hasMore is true exactly when page * pageSize is less than the number of
\* post files the adapter recognizes in the listing it got; the call returns
\* that value whatever became of the files of the page, and on the last page,
\* and past it, it is false.
C7_HasMore ==
  Listed =>
    LET N == Cardinality(Recognized(task)) IN
    /\ task.hasMore = (task.page * task.pageSize < N)
    /\ task.page >= LastPage(N, task.pageSize) => ~task.hasMore
    /\ task.phase = "done" => task.result.value.hasMore = task.hasMore

\* C7 witness: a call has returned hasMore = true for a page of which a file
\* gave no post.
C7_Witness ==
  /\ task.phase = "done"
  /\ task.result.kind = "return"
  /\ task.result.value.hasMore
  /\ Len(task.result.value.posts) < Len(task.files)

\* C8: a file of the page that cannot be fetched, decoded or parsed does not
\* fail the call: while the loop runs the call has no result and has dealt with
\* the files before the one it is at; once a call that got to its files is
\* done it has returned, every file of the page has been dealt with, and the
\* posts returned are those of the files that gave one, in page order.
C8_FileFailureSkipped ==
  /\ task.phase = "files" =>
       /\ task.result = Null
       /\ Len(task.outcomes) = task.idx - 1
       /\ task.idx <= Len(task.files)
  /\ (task.phase = "done" /\ task.outcomes # <<>>) =>
       /\ task.result.kind = "return"
       /\ Len(task.outcomes) = Len(task.files)
       /\ task.result.value.posts = task.posts
       /\ Len(task.posts) = Len(OkFiles(task))
       /\ \A k \in DOMAIN task.posts :
            task.posts[k].fileName = task.files[OkFiles(task)[k]].name

\* C8 witness: a remote call has returned a page whose first file could not be
\* fetched and whose second file gave a post.
C8_Witness ==
  /\ task.phase = "done"
  /\ ~task.local
  /\ task.result.kind = "return"
  /\ Len(task.outcomes) = 2
  /\ task.outcomes[1] = "fetch"
  /\ task.outcomes[2] = "ok"
  /\ Len(task.result.value.posts) = 1

\* C9: when the request for the directory listing fails (403, another status,
\* no response, the rate limit gate) the call is over and has thrown that very
\* error, a GitHubAPIError with the status of the response; a remote call
\* that throws throws a GitHubAPIError; a local call whose directory cannot be
\* read throws too.
C9_ListingFailurePropagates ==
  /\ (last.op = "makeRequest" /\ last.owner = "getRepositoryContents"
        /\ last.ret.kind = "throw") =>
       /\ task.phase = "done"
       /\ task.result = [kind |-> "throw", value |-> last.value]
       /\ task.result.value.name = "GitHubAPIError"
       /\ (last.status # <<>> /\ ~(last.status[1] >= 200 /\ last.status[1] <= 299)) =>
            task.result.value.status = last.status
  /\ (task.phase = "done" /\ ~task.local /\ task.result.kind = "throw") =>
       task.result.value.name = "GitHubAPIError"
  /\ (last.op = "getLocalPosts" /\ disk = Null) =>
       (task.phase = "done" /\ task.result.kind = "throw")

\* C9 witness: the listing request of a call was answered 403 and the call has
\* thrown the forbidden error.
C9_Witness ==
  /\ last.op = "makeRequest"
  /\ last.owner = "getRepositoryContents"
  /\ last.status = <<403>>
  /\ task.phase = "done"
  /\ task.result.kind = "throw"
  /\ task.result.value.status = <<403>>

\* ------------------------------------------------- claims on the ordering
Files == {[name |-> names[i]] : i \in DOMAIN names}
ValidTime(f) ==
  /\ extractDateFromFileName(f.name) # Null
  /\ extractDateFromFileName(f.name).time # <<>>
Sign(n) == IF n < 0 THEN -1 ELSE IF n > 0 THEN 1 ELSE 0
IndexIn(seq, x) == CHOOSE i \in DOMAIN seq : seq[i] = x

\* C10 (as stated): over the names of any listing the comparator is a total
\* order: consistent (comparing b with a gives the opposite sign of comparing a
\* with b) and transitive; in the sorted listing two names with distinct valid
\* timestamps stand newest first, and names that compare equal keep their
\* listing order.
C10_TotalOrder ==
  /\ \A a, b \in Files : Sign(SortCompare(a, b)) = - Sign(SortCompare(b, a))
  /\ \A a, b, c \in Files :
       (SortCompare(a, b) <= 0 /\ SortCompare(b, c) <= 0) => SortCompare(a, c) <= 0
  /\ sortedNames # <<>> =>
       \A i, j \in DOMAIN sortedNames :
         i < j =>
           /\ (ValidTime(sortedNames[i]) /\ ValidTime(sortedNames[j])) =>
                extractDateFromFileName(sortedNames[i].name).time[1] >=
                  extractDateFromFileName(sortedNames[j].name).time[1]
           /\ SortCompare(sortedNames[i], sortedNames[j]) = 0 =>
                IndexIn(names, sortedNames[i].name) < IndexIn(names, sortedNames[j].name)

\* ------------------------------------------- claims on the persistent store
\* The step is a get(key) that returned, and set wrote an entry for key that
\* no delete, clear, write to the key or foreign write has replaced since
GetOfWritten(k) ==
  /\ last'.op = "get"
  /\ last'.endpoint = k
  /\ last'.ret # Null
  /\ last'.ret.kind = "return"
  /\ written[k] # Null

Prefixed(ls) == {k \in DOMAIN ls : k[1] = prefix}
Unexpired(ls, t) ==
  {k \in Prefixed(ls) : parses(ls[k]) /\ ~(t > JSON_parse(ls[k]).expiresAt)}
Excess(n) == IF n > maxSize THEN n - maxSize ELSE 0

\* C12: after a set whose write succeeded the store holds under the prefix no
\* expired entry and at most 50 entries; the entries removed from the
\* unexpired ones are as many as exceeded 50 and none of them was written
\* later than an entry that is kept; a get removes nothing but its own key's
\* expired or unreadable value and changes no entry.
C12_CleanupBound ==
  [][ /\ (last'.op = "set" /\ last'.outcome = "written") =>
           LET stored == Put(localStorage, getKey(last'.endpoint),
                             JSON_stringify(last'.value))
               valid == Unexpired(stored, now)
               kept == Prefixed(localStorage')
               removed == valid \ kept
           IN /\ kept = Unexpired(localStorage', now)
              /\ Cardinality(kept) <= maxSize
              /\ kept \subseteq valid
              /\ \A k \in kept : localStorage'[k] = stored[k]
              /\ Cardinality(removed) = Excess(Cardinality(valid))
              /\ \A r \in removed : \A k \in kept :
                   JSON_parse(stored[r]).timestamp <= JSON_parse(stored[k]).timestamp
      /\ (last'.op = "get" /\ last'.ret.kind = "return") =>
           LET own == getKey(last'.endpoint) IN
           /\ DOMAIN localStorage' \subseteq DOMAIN localStorage
           /\ \A k \in DOMAIN localStorage' : localStorage'[k] = localStorage[k]
           /\ DOMAIN localStorage \ DOMAIN localStorage' \subseteq {own}
           /\ (own \in DOMAIN localStorage /\ own \notin DOMAIN localStorage') =>
                own \notin Unexpired(localStorage, now) ]_vars

\* C12 witness: a set has found 51 unexpired entries and the one written first
\* is gone, 50 are left
C12_Witness ==
  /\ last.op = "set"
  /\ last.outcome = "written"
  /\ getKey(<<"key", 1>>) \notin DOMAIN localStorage
  /\ getKey(<<"key", 2>>) \in DOMAIN localStorage
  /\ Cardinality(Prefixed(localStorage)) = maxSize

\* C13 (as stated): no operation of the persistent store raises, whatever the
\* state of the storage (absent, raising on access, holding a value that is no
\* entry); without storage or with storage that raises, get returns null and
\* set, delete and clear change nothing.
C13_NeverRaises ==
  last.owner = "persistentCache" =>
    /\ last.ret.kind = "return"
    /\ (last.op = "get" /\ (~hasWindow \/ storageRaises)) => last.value = Null

\* --------------------------------------------- claims on the configuration
\* C16 (as stated): the configuration persisted by any sequence of saves and
\* resets has the owner and the repository derived from its own repositoryUrl;
\* in particular no URL that fails the pattern is ever persisted.
C16_OwnerRepoDerived ==
  (CONFIG_KEY \in DOMAIN localStorage) =>
    LET config == JSON_parse(localStorage[CONFIG_KEY])
        derived == parseRepositoryUrl(config.repositoryUrl)
    IN /\ derived # Null
       /\ config.owner = derived.owner
       /\ config.repo = derived.repo

\* ---------------------------------------------------- claims on the parser
\* C18: parseMDXContent never raises, and returns null for a document that
\* lacks any one of the five required fields.
C18_MissingFieldNull ==
  last.op = "parseMDXContent" =>
    /\ last.ret.kind = "return"
    /\ parsed = last.ret.value
    /\ \A field \in requiredFields : field \notin doc.fields => parsed = Null
    /\ parsed # Null => parsed.fileName = names[1]

\* C18 witness: a well-formed document that lacks the postId only has been
\* parsed into null
C18_Witness ==
  /\ last.op = "parseMDXContent"
  /\ doc.yamlOk
  /\ doc.fields = requiredFields \ {"postId"}
  /\ parsed = Null

\* ------------------------------------- claims on the gate and the listing
\* The step starts a listing call of the remote adapter with the gate closed
GatedListing ==
  /\ Started
  /\ GateClosed
  /\ last'.owner = "getRepositoryContents"

\* A cache tier holds an entry the lookup of the call accepts
ServedByCache(e, d) ==
  \/ MemoryHolds(e, d)
  \/ StoreHolds(e, d) /\ StoreUnexpired(e)

\* C20 (as stated): with remaining <= 1 and the reset time in the future a
\* listing call fails at once and makes no network attempt, whether or not a
\* cache tier holds an entry for the listing.
C20_GateFailsListing ==
  [][ GatedListing =>
        /\ last'.outcome = "ratelimit"
        /\ last'.ret = [kind |-> "throw", value |-> RateLimitError]
        /\ inflight' = inflight ]_vars

\* C20 (amended): with the gate closed a listing call makes no network attempt;
\* it returns the cached listing when a tier holds a fresh entry for it, and
\* fails at once with the rate-limit error otherwise, a stale entry being of
\* no help.
C20_GateAfterCaches ==
  [][ GatedListing =>
        LET e == last'.endpoint
            d == last'.duration
        IN /\ inflight' = inflight
           /\ last'.outcome \in {"memory", "persistent", "ratelimit"}
           /\ ServedByCache(e, d) =>
                /\ last'.outcome \in {"memory", "persistent"}
                /\ last'.ret = [kind |-> "return", value |-> last'.value]
           /\ ~ServedByCache(e, d) =>
                /\ last'.outcome = "ratelimit"
                /\ last'.ret = [kind |-> "throw", value |-> RateLimitError] ]_vars

\* C20 witness: a listing call has failed at the closed gate while the memory
\* cache holds an entry, no longer fresh, for the listing
C20_Witness ==
  /\ last.op = "makeRequest"
  /\ last.owner = "getRepositoryContents"
  /\ last.outcome = "ratelimit"
  /\ GateClosed
  /\ <<GITHUB_API_BASE, last.endpoint>> \in DOMAIN cache

\* The names of a sequence of files
NamesOf(files) == {files[i].name : i \in DOMAIN files}

\* C19 (as stated): only entries of type file whose name follows the pattern
\* YYYY-MM-DD_HH-MM-SS_<slug>.mdx are ordered and sliced, in both adapters:
\* no directory and no file without the date prefix or the extension takes a
\* slot of a page.
C19_OnlyDatedPosts ==
  Listed =>
    \A i \in DOMAIN task.sorted :
      LET name == task.sorted[i].name IN
      /\ dateMatch(name)
      /\ endsWithMdx(name)
      /\ IF task.local THEN name \notin disk.dirs ELSE task.sorted[i].type = "file"

\* C19 (amended): the entries ordered and sliced are exactly those whose name
\* ends in .mdx and, in the remote adapter, whose type is file; a name without
\* the date prefix is among them, and so is, in the local adapter, a directory
\* of such a name. No entry without the extension and no directory of the
\* remote listing takes a slot of a page.
C19_OnlyMdxEntries ==
  Listed =>
    /\ NamesOf(task.sorted) = {task.listing[i].name : i \in Recognized(task)}
    /\ Len(task.sorted) = Cardinality(Recognized(task))
    /\ NamesOf(task.files) \subseteq NamesOf(task.sorted)
    /\ \A i \in DOMAIN task.sorted :
         /\ endsWithMdx(task.sorted[i].name)
         /\ ~task.local => task.sorted[i].type = "file"

\* C19 witness: a page of the local adapter holds a name without date, the
\* sorted listing holds a directory named like a post, and the listing has a
\* file without the extension that is not among them
C19_Witness ==
  /\ task.phase = "done"
  /\ task.result.kind = "return"
  /\ task.local
  /\ \E i \in DOMAIN task.listing : task.listing[i].name = NameReadme
  /\ NameReadme \notin NamesOf(task.sorted)
  /\ NameUndated \in NamesOf(task.files)
  /\ NameDir \in NamesOf(task.sorted)

\* ------------------------------------------------------ claims on the loader
ModeName(local) == IF local THEN "local" ELSE "remote"
LocalOps == {"getLocalPosts", "getLocalFileContent", "validateLocalRepository",
             "preloadLocal"}
AdapterFrame ==
  /\ cache' = cache
  /\ localStorage' = localStorage
  /\ rateLimitRemaining' = rateLimitRemaining
  /\ rateLimitReset' = rateLimitReset
  /\ inflight' = inflight

\* C14: the mode changes in no step but updateConfig, which sets it to what
\* the probe finds; a change of the posts directory leaves it; getMode returns
\* the mode of the last probe and changes nothing.
C14_ModeOnlyProbed ==
  [][ /\ isLocalMode' # isLocalMode => last'.op = "updateConfig"
      /\ last'.op = "updateConfig" => isLocalMode' = (~hasWindow /\ disk # Null)
      /\ last'.op = "postsDirChange" => isLocalMode' = isLocalMode
      /\ last'.op = "getMode" =>
           /\ last'.value.mode = ModeName(isLocalMode)
           /\ isLocalMode' = isLocalMode
           /\ AdapterFrame ]_vars

\* C14 witness: getMode answers local after the posts directory has gone
C14_Witness ==
  /\ last.op = "getMode"
  /\ last.value.mode = "local"
  /\ disk = Null

\* C15: a call of getPosts, getFileContent, validateRepository or preloadPosts
\* goes to the local adapter only in local mode, where it starts no request
\* and leaves the memory cache, the persistent store and the rate-limit
\* counters as they are; it starts a request of the remote adapter only in
\* remote mode.
C15_ActiveAdapterOnly ==
  [][ /\ last'.op \in LocalOps =>
           /\ isLocalMode
           /\ AdapterFrame
           /\ task'.local
      /\ (Started /\ Idle) =>
           /\ ~isLocalMode
           /\ ~task'.local ]_vars

\* C15 witness: a page has been read from the local directory while the
\* counters of the remote adapter stand where an earlier response left them
C15_Witness ==
  /\ last.op = "getLocalPosts"
  /\ isLocalMode
  /\ rateLimitRemaining # 60
  /\ task.result.kind = "return"

\* C17: the promise of preloadPosts is never rejected: pending while the page
\* is loaded, fulfilled when getPosts has ended, with a result or an error; in
\* local mode it is fulfilled at once, nothing is read and nothing changes.
C17_PreloadResolves ==
  [][ /\ task'.op = "preloadPosts" =>
           /\ task'.phase = "done" => task'.result = Return(Null)
           /\ task'.phase # "done" => task'.result = Null
           /\ task'.local => task'.phase = "done" /\ task'.inner = Null
      /\ last'.op = "preloadLocal" =>
           /\ AdapterFrame
           /\ task'.op = "preloadPosts" ]_vars

\* C17 witness: a preload whose getPosts failed has its promise fulfilled
C17_Witness ==
  /\ task.op = "preloadPosts"
  /\ task.phase = "done"
  /\ task.inner # Null
  /\ task.inner.kind = "throw"
  /\ task.result = Return(Null)


\* ------------------------------------------- claims on failures and caches
\* C21: a 403 answer always reaches the caller as the forbidden error
\* (status 403): the step that receives it throws that error, returns no
\* payload, cached or not, and leaves both cache tiers as they were, also
\* when a stale entry for the request sits in memory or in the store.
C21_ForbiddenPropagates ==
  [][(last'.op = "makeRequest" /\ last'.status = <<403>>) =>
       /\ last'.outcome = "error"
       /\ last'.ret = Throw(GitHubAPIError("Access forbidden or rate limit exceeded",
                                           <<403>>))
       /\ cache' = cache
       /\ localStorage' = localStorage]_vars

\* C21 witness: a request has just failed on a 403 while an entry for it sits
\* in memory and in the persistent store.
C21_Witness ==
  /\ last.op = "makeRequest"
  /\ last.status = <<403>>
  /\ last.outcome = "error"
  /\ <<GITHUB_API_BASE, last.endpoint>> \in DOMAIN cache
  /\ StoreKey(last.endpoint) \in DOMAIN localStorage

\* C22 (as stated): when the network call of a request ends in a network
\* exception (no response) and a cached entry for the request exists, the
\* request returns the cached payload instead of failing.
C22_NetworkFallback ==
  [][\A i \in DOMAIN inflight :
       (/\ Completed(i)
        /\ inflight[i].phase = "fetch"
        /\ last'.op = "makeRequest"
        /\ last'.status = <<>>
        /\ inflight[i].cachedEntry # Null) =>
          /\ last'.outcome # "error"
          /\ last'.ret.kind = "return"
          /\ last'.value = inflight[i].cachedEntry.data]_vars

\* C23: a set whose storage write raises returns normally and stores nothing:
\* afterwards the store holds no expired entry, of the n entries that were
\* still valid the floor(n/2) written earliest are gone, and every entry that
\* is left, the one under the key of the call included, is the value it was
\* before the call (old data, old timestamp).
C23_FailedWriteHalves ==
  [][(last'.op = "set" /\ last'.outcome = "noop" /\ last'.warn) =>
       LET valid == Unexpired(localStorage, now)
           kept == Prefixed(localStorage')
           removed == valid \ kept
       IN /\ last'.ret = Return(Null)
          /\ kept = Unexpired(localStorage', now)
          /\ kept \subseteq valid
          /\ Cardinality(removed) = Cardinality(valid) \div 2
          /\ \A r \in removed : \A k \in kept :
               JSON_parse(localStorage[r]).timestamp
                 <= JSON_parse(localStorage[k]).timestamp
          /\ \A k \in kept : localStorage'[k] = localStorage[k]]_vars

\* C23 witness: a set failed on its write while two valid entries were in the
\* store: the other one is gone, and the key of the call still holds what an
\* earlier set wrote at an earlier time.
C23_Witness ==
  /\ last.op = "set"
  /\ last.outcome = "noop"
  /\ last.warn
  /\ Prefixed(localStorage) = {getKey(last.endpoint)}
  /\ JSON_parse(localStorage[getKey(last.endpoint)]).timestamp < now
  /\ JSON_parse(localStorage[getKey(last.endpoint)]) # last.value
  /\ \E k \in ActiveKeys \ {last.endpoint} : written[k] # Null /\ written[k].evicted

\* C25 (as stated): the persistent store never returns an entry at a time
\* now >= expiresAt, in particular not at now = expiresAt.
C25_NeverAtExpiry ==
  (last.op = "get" /\ last.outcome = "hit") => now < last.value.expiresAt

\* C30: a payload returned without a network round trip is the payload of an
\* entry whose timestamp lies less than the caller's duration in the past; a
\* persistent entry copied into memory keeps its timestamp; and a timestamp
\* only ever becomes the current time, in the step that receives a 2xx body
\* (both tiers) or a 304 (memory): no other step, clearCache included, makes
\* an entry younger.
C30_FreshnessNeverExtended ==
  [][/\ (last'.op = "makeRequest" /\ last'.outcome = "memory") =>
          LET e == cache[Url(last'.endpoint)] IN
          /\ last'.value = e.data
          /\ 0 <= now - e.timestamp
          /\ now - e.timestamp < last'.duration
     /\ (last'.op = "makeRequest" /\ last'.outcome = "persistent") =>
          LET e == JSON_parse(localStorage[StoreKey(last'.endpoint)]) IN
          /\ last'.value = e.data
          /\ 0 <= now - e.timestamp
          /\ now - e.timestamp < last'.duration
          /\ cache'[Url(last'.endpoint)].timestamp = e.timestamp
     /\ \A u \in DOMAIN cache' :
          (u \notin DOMAIN cache \/ cache'[u].timestamp # cache[u].timestamp) =>
             /\ last'.op = "makeRequest"
             /\ u = Url(last'.endpoint)
             /\ \/ last'.outcome = "persistent"
                \/ last'.outcome \in {"200", "304"} /\ cache'[u].timestamp = now
     /\ \A k \in Prefixed(localStorage') :
          (k \notin DOMAIN localStorage \/ localStorage'[k] # localStorage[k]) =>
             /\ last'.op = "makeRequest"
             /\ last'.outcome = "200"
             /\ k = StoreKey(last'.endpoint)
             /\ JSON_parse(localStorage'[k]).timestamp = now]_vars

\* C30 witness: a request was just served from the persistent store after the
\* memory cache was emptied, and the copy now in memory carries the time of
\* the response that produced it, which is in the past.
C30_Witness ==
  /\ last.op = "makeRequest"
  /\ last.outcome = "persistent"
  /\ Url(last.endpoint) \in DOMAIN cache
  /\ cache[Url(last.endpoint)].timestamp < now
  /\ cache[Url(last.endpoint)].timestamp
       = JSON_parse(localStorage[StoreKey(last.endpoint)]).timestamp

\* C27: clearExpiredCache removes from the memory cache exactly the entries
\* with now - timestamp > 1 hour and returns how many they were; every entry
\* of at most one hour stays as it was, so no entry still fresh for the
\* 5-minute or the 30-minute duration goes; the persistent store and the
\* rate-limit counters are left unchanged.
C27_ClearExpiredExact ==
  [][last'.op = "clearExpiredCache" =>
       LET old == {u \in DOMAIN cache : now - cache[u].timestamp > 3600000} IN
       /\ DOMAIN cache' = DOMAIN cache \ old
       /\ \A u \in DOMAIN cache' : cache'[u] = cache[u]
       /\ last'.ret = Return(Cardinality(old))
       /\ \A u \in DOMAIN cache :
            (now - cache[u].timestamp < CACHE_DURATION
               \/ now - cache[u].timestamp < LONG_CACHE_DURATION) =>
              u \in DOMAIN cache'
       /\ localStorage' = localStorage
       /\ rateLimitRemaining' = rateLimitRemaining
       /\ rateLimitReset' = rateLimitReset]_vars

\* C27 witness: clearExpiredCache has removed one entry and kept another that
\* is exactly one hour old.
C27_Witness ==
  /\ last.op = "clearExpiredCache"
  /\ last.value = 1
  /\ \E u \in DOMAIN cache : now - cache[u].timestamp = 3600000

\* Request i is the last of two or more overlapping requests for one endpoint
\* to complete: it overlapped with another, it completes in this step with the
\* given outcome, and no request for its endpoint is left in flight.
LastOfRace(i, outcome) ==
  /\ Completed(i)
  /\ inflight[i].raced
  /\ last'.op = "makeRequest"
  /\ last'.outcome = outcome
  /\ \A j \in DOMAIN inflight :
       inflight'[j] # Null => inflight'[j].endpoint # inflight[i].endpoint

C26_InvalidPageRejected ==
  (task.page < 1 \/ task.pageSize <= 0) =>
     /\ task.phase # "files"
     /\ task.phase = "done" => task.result.kind = "throw"

\* C28 (as stated): entity decoding is idempotent: the second decoding that
\* parse applies to a text it has already decoded never changes the text.
C28_DecodeIdempotent ==
  [][last'.op = "decodeField" => parsed'.text = parsed.text]_vars

\* C29 (as stated): the preview never has more than 200 code points in all; of
\* a first paragraph of more than 200 code points it is a cut that ends with
\* the ellipsis and stays within 200; a first paragraph of at most 200 code
\* points is copied as it is.
C29_PreviewWithinLimit ==
  last.op = "extractContentPreview" =>
     /\ Len(parsed.preview) <= 200
     /\ Len(doc) > 200 =>
          SubSeq(parsed.preview, Len(parsed.preview) - 2, Len(parsed.preview)) = Ellipsis
     /\ (Len(doc) <= 200 /\ doc # <<>>) => parsed.preview = doc

\* ------------------------------------------- claims on the rate-limit state
\* C31: once the current time has reached the tracked reset time (now >=
\* reset * 1000) no request is rejected by the local gate, whatever the
\* tracked remaining value: a request that no cache tier serves starts its
\* network call; in particular an adapter with remaining 60 and reset 0 is
\* never rejected.
C31_GateReopensByTime ==
  [][(Started /\ (now >= rateLimitReset * 1000
                    \/ (rateLimitRemaining = 60 /\ rateLimitReset = 0))) =>
       /\ last'.outcome # "ratelimit"
       /\ last'.outcome \notin {"memory", "persistent"} =>
            /\ last'.outcome = "fetch"
            /\ \E i \in DOMAIN inflight : inflight[i] = Null /\ inflight'[i] # Null]_vars

\* C31 witness: with one call left of the budget and the reset time reached,
\* a request has just started its network call.
C31_Witness ==
  /\ last.op = "makeRequest"
  /\ last.outcome = "fetch"
  /\ rateLimitRemaining <= 1
  /\ rateLimitReset > 0
  /\ now >= rateLimitReset * 1000

\* The step receives the response of a network call: a request that was
\* waiting for it has its status
ResponseReceived ==
  /\ last'.op = "makeRequest"
  /\ last'.status # <<>>
  /\ \E i \in DOMAIN inflight :
       /\ inflight[i] # Null
       /\ inflight[i].phase = "fetch"
       /\ inflight'[i] = Null \/ inflight'[i].phase = "json"

C33_ClearKeepsStore ==
  [][/\ last'.op \in {"clearCache", "updateConfig"} =>
          /\ cache' = EmptyMap
          /\ localStorage' = localStorage
     /\ (Started /\ cache = EmptyMap
           /\ StoreHolds(last'.endpoint, last'.duration)
           /\ StoreUnexpired(last'.endpoint)) =>
          /\ last'.outcome = "persistent"
          /\ last'.value = localStorage[StoreKey(last'.endpoint)].json.data
          /\ \A i \in DOMAIN inflight : inflight[i] = Null => inflight'[i] = Null
          /\ rateLimitRemaining' = rateLimitRemaining]_vars

\* C33 witness: the listing, asked for again within five minutes of its
\* response, has just been answered from the persistent store: the memory
\* cache had been emptied in between.
C33_Witness ==
  /\ last.op = "makeRequest"
  /\ last.owner = "getRepositoryContents"
  /\ last.outcome = "persistent"
  /\ now - localStorage[StoreKey(last.endpoint)].json.timestamp < CACHE_DURATION

\* C34: requests in flight are not coalesced: a request started while another
\* for the same endpoint is waiting for its response, with no cache tier
\* serving it and the gate open, starts a network call of its own and leaves
\* the waiting one in flight.
C34_NoCoalescing ==
  [][\A j \in DOMAIN inflight :
       (/\ last'.op = "makeRequest"
        /\ last'.outcome \notin {"200", "304", "error", "headers"}
        /\ inflight[j] # Null
        /\ inflight[j].phase = "fetch"
        /\ inflight[j].endpoint = last'.endpoint
        /\ ~ServedByCache(last'.endpoint, last'.duration)
        /\ ~GateClosed) =>
          /\ last'.outcome = "fetch"
          /\ inflight'[j] # Null /\ inflight'[j].phase = "fetch"
          /\ \E i \in DOMAIN inflight \ {j} :
               /\ inflight[i] = Null
               /\ inflight'[i] # Null
               /\ inflight'[i].endpoint = last'.endpoint
               /\ inflight'[i].phase = "fetch"]_vars

\* C34 witness: two network calls for the listing are waiting for their
\* responses at the same time.
C34_Witness ==
  /\ last.op = "makeRequest"
  /\ last.outcome = "fetch"
  /\ \E i, j \in DOMAIN inflight :
       /\ i # j
       /\ inflight[i] # Null /\ inflight[j] # Null
       /\ inflight[i].endpoint = inflight[j].endpoint
       /\ inflight[i].phase = "fetch" /\ inflight[j].phase = "fetch"

\* ------------------------------------------------ claims on the page result
\* C35: the posts a call returns are those of the files of its page that gave
\* one, in the order of the page: at most one post for a file, never more
\* than pageSize posts; and a file request that the closed gate rejects inside
\* the loop starts no network call and does not fail the call: the loop goes
\* on, or the call returns the posts it has with the hasMore of the listing.
C35_PostsWithinPage ==
  [][/\ (task'.phase = "done" /\ task'.result.kind = "return"
           /\ task'.op = "getPosts") =>
          LET posts == task'.result.value.posts
              ok == OkFiles(task')
          IN /\ Len(posts) = Len(ok)
             /\ Len(posts) <= Len(task'.files)
             /\ Len(task'.files) <= task'.pageSize
             /\ \A k \in DOMAIN posts : posts[k].fileName = task'.files[ok[k]].name
             /\ \A k1, k2 \in DOMAIN ok : k1 < k2 => ok[k1] < ok[k2]
     /\ (task.phase = "files" /\ last'.op = "makeRequest"
           /\ last'.owner = "getFileContent" /\ last'.outcome = "ratelimit") =>
          /\ inflight' = inflight
          /\ task'.posts = task.posts
          /\ task'.hasMore = task.hasMore
          /\ IF task.idx < Len(task.files)
             THEN task'.phase = "files" /\ task'.idx = task.idx + 1
             ELSE /\ task'.phase = "done"
                  /\ task'.result = Return([posts |-> task.posts,
                                            hasMore |-> task.hasMore])]_vars

\* C35 witness: with the gate closed a remote call has returned no post for a
\* page of files, every one of them rejected at the gate, and hasMore = true.
C35_Witness ==
  /\ task.phase = "done"
  /\ ~task.local
  /\ task.result.kind = "return"
  /\ task.result.value.posts = <<>>
  /\ task.result.value.hasMore
  /\ task.files # <<>>
  /\ last.op = "makeRequest"
  /\ last.outcome = "ratelimit"
  /\ GateClosed
  /\ \A i \in DOMAIN task.outcomes : task.outcomes[i] = "fetch"

\* ------------------------------- the store and the configuration side by side
\* A key of another part of the origin whose name is the prefix without its
\* colon, holding a value that is no JSON
OTHER_KEY == <<"feed-watcher-cache">>
Foreign == {CONFIG_KEY, OTHER_KEY}
SavedAndOther ==
  [ k \in Foreign |-> IF k = CONFIG_KEY THEN JSON_stringify(defaultFeedConfig)
                      ELSE Garbage ]
PrefilledShared ==
  [ k \in DOMAIN Prefilled \cup Foreign |->
      IF k \in Foreign THEN SavedAndOther[k] ELSE Prefilled[k] ]

\* A page of a later session: the earlier one saved a configuration and left
\* cache entries, and another script of the origin left a value of its own
InitShared ==
  /\ now = Tick
  /\ hasWindow \in BOOLEAN
  /\ storageRaises \in (IF hasWindow THEN BOOLEAN ELSE {FALSE})
  /\ localStorage \in (IF hasWindow THEN {SavedAndOther, PrefilledShared}
                       ELSE {EmptyMap})
  /\ written = [k \in ActiveKeys |-> Null]
  /\ cache = EmptyMap
  /\ rateLimitRemaining = 60
  /\ rateLimitReset = 0
  /\ remote = Repo1
  /\ inflight = [i \in 1..MaxInflight |-> Null]
  /\ last = Quiet("init")
  /\ task = IdleTask
  /\ isLocalMode = FALSE
  /\ disk = Null
  /\ names = <<>>
  /\ sortedNames = <<>>
  /\ InitPanel
  /\ InitFeed
  /\ InitParse

NextShared ==
  \/ Advance
  \/ CacheSet
  \/ CacheGet
  \/ CacheDelete
  \/ CacheClear
  \/ Corrupt
  \/ ValidateUrl
  \/ HandleSave
  \/ HandleReset

SpecShared == InitShared /\ [][NextShared]_vars

\* The keys of ls and the values under them that satisfy the test
Kept(ls, cacheSide) ==
  LET ks == {k \in DOMAIN ls : (k[1] = prefix) = cacheSide}
  IN [k \in ks |-> ls[k]]

\* C36: set with its cleanup, get with its expiry deletion, delete and clear
\* add, change and remove only keys that start with 'feed-watcher-cache:': the
\* configuration record and every other key stay as they were; saving or
\* resetting the configuration leaves every cache entry as it was.
C36_PrefixIsolation ==
  [][/\ last'.owner = "persistentCache" =>
          Kept(localStorage', FALSE) = Kept(localStorage, FALSE)
     /\ last'.op \in {"handleSave", "handleReset"} =>
          Kept(localStorage', TRUE) = Kept(localStorage, TRUE)]_vars

\* C36 witness: a set has just evicted the other written entry through its
\* cleanup while the configuration record and the foreign key are in place.
C36_Witness ==
  /\ last.op = "set"
  /\ last.outcome = "written"
  /\ \E k \in DOMAIN written : written[k] # Null /\ written[k].evicted
  /\ Kept(localStorage, FALSE) = SavedAndOther

\* ---------------------------------- a burst of writes within one clock reading
\* Responses that arrive within one reading of Date.now() are written one after
\* the other (github-api.ts line 112): the keys of the burst in their order, and
\* the two keys the callers use at any moment. Every write goes through and
\* every entry carries the timestamp of the burst.
BurstETag == "W/burst"
NextFiller(ls) ==
  LET missing == {i \in Fillers : getKey(<<"key", i>>) \notin DOMAIN ls}
  IN IF missing = {} THEN {}
     ELSE {<<"key", CHOOSE i \in missing : \A j \in missing : i <= j>>}

\* persistentCache.set(key, data, ttl, etag), the write not raising
BurstSet == \E key \in ActiveKeys \cup NextFiller(localStorage) :
  LET entry == [ data |-> SomeData, timestamp |-> now, etag |-> BurstETag,
                 expiresAt |-> now + CACHE_DURATION ]
  IN /\ localStorage' \in persistentCache_set(localStorage, key, SomeData,
                                              CACHE_DURATION, BurstETag, now, TRUE)
     /\ written' = standing(
          IF key \in ActiveKeys
          THEN [written EXCEPT ![key] = [entry |-> entry, evicted |-> FALSE]]
          ELSE written, localStorage', now)
     /\ last' = Obs("set", "persistentCache", key, CACHE_DURATION, "written", entry,
                    Return(Null), <<>>, FALSE)
     /\ UNCHANGED <<now, hasWindow, cache, rateLimitRemaining, rateLimitReset, remote,
                    inflight, isLocalMode, disk, task, names, sortedNames,
                    storageRaises, panel, parseVars, feed>>

\* A page with an empty store
InitBurst ==
  /\ now = Tick
  /\ hasWindow = TRUE
  /\ storageRaises = FALSE
  /\ localStorage = EmptyMap
  /\ written = [k \in ActiveKeys |-> Null]
  /\ cache = EmptyMap
  /\ rateLimitRemaining = 60
  /\ rateLimitReset = 0
  /\ remote = Repo1
  /\ inflight = [i \in 1..MaxInflight |-> Null]
  /\ last = Quiet("init")
  /\ task = IdleTask
  /\ isLocalMode = FALSE
  /\ disk = Null
  /\ names = <<>>
  /\ sortedNames = <<>>
  /\ InitPanel
  /\ InitFeed
  /\ InitParse

NextBurst ==
  \/ BurstSet
  \/ CacheGet
  \/ CacheDelete

SpecBurst == InitBurst /\ [][NextBurst]_vars

\* C37: right after a set whose write did not raise, get(key) returns the
\* entry with the data and the ETag just written: the cleanup the set ran has
\* not evicted it, whatever the store held and whatever timestamps the other
\* entries carry.
C37_SetThenGet ==
  (last.op = "set" /\ last.outcome = "written") =>
     LET got == persistentCache_get(localStorage, last.endpoint, now).value
     IN /\ got # Null
        /\ got.data = last.value.data
        /\ got.etag = last.value.etag

\* ------------------------------------------------- the Newsfeed and its loads
\* The posts of one page of a feed, as one item
PageOf(config, page) == [config |-> config, page |-> page]

\* What postLoader.getPosts(page, 10) resolves with: the page of the feed of
\* the loader's configuration, hasMore while a page follows
getPostsResult(loader, page) ==
  [ posts |-> IF page <= FeedPages THEN <<PageOf(loader.config, page)>> ELSE <<>>,
    hasMore |-> page < FeedPages ]

FreeLoads(f) == {i \in DOMAIN f.loads : f.loads[i] = Null}

\* loadPosts(page, reset) up to its await, lines 45-50, as the callback of the
\* render whose postLoader is loader (dependency list [postLoader], line 72).
\* The load remembers the number of resets before it (history).
loadPosts(f, loader, page, reset) ==
  LET i == CHOOSE i \in FreeLoads(f) : \A j \in FreeLoads(f) : i <= j IN
  [f EXCEPT !.pagination.loading = TRUE,
            !.error = "",
            !.loads[i] = [ page |-> page, reset |-> reset, loader |-> loader,
                           resets |-> f.resets ]]

\* setPosts([]); setPagination({ page: 1, hasMore: true, loading: false }),
\* lines 79-80 and 86-87
cleared(f) ==
  [f EXCEPT !.posts = <<>>,
            !.pagination = [page |-> 1, hasMore |-> TRUE, loading |-> FALSE],
            !.resets = @ + 1]

\* The first effect, lines 34-36
Mount ==
  /\ ~feed.mounted
  /\ feed' = loadPosts([feed EXCEPT !.mounted = TRUE], feed.postLoader, 1, TRUE)
  /\ last' = Obs("mount", "Newsfeed", <<>>, 0, "started",
                 [page |-> 1, loader |-> feed.postLoader], Return(Null), <<>>, FALSE)
  /\ UNCHANGED <<now, hasWindow, localStorage, cache, rateLimitRemaining,
                 rateLimitReset, remote, inflight, isLocalMode, disk, task, names,
                 sortedNames, cacheVars, panel, parseVars>>

\* The scroll effect with the sentinel in view, lines 38-43. The sentinel is
\* rendered while hasMore holds and the list is not empty (lines 232-236).
LoadMore ==
  /\ feed.mounted
  /\ feed.posts # <<>>
  /\ feed.pagination.hasMore
  /\ ~feed.pagination.loading
  /\ FreeLoads(feed) # {}
  /\ feed' = loadPosts(feed, feed.postLoader, feed.pagination.page + 1, FALSE)
  /\ last' = Obs("loadMore", "Newsfeed", <<>>, 0, "started",
                 [page |-> feed.pagination.page + 1, loader |-> feed.postLoader],
                 Return(Null), <<>>, FALSE)
  /\ UNCHANGED <<now, hasWindow, localStorage, cache, rateLimitRemaining,
                 rateLimitReset, remote, inflight, isLocalMode, disk, task, names,
                 sortedNames, cacheVars, panel, parseVars>>

\* getPosts of a load resolves: loadPosts after its await, lines 50-62. The
\* preload of line 61 warms the caches of the load's loader only.
LoadResolves == \E i \in DOMAIN feed.loads :
  /\ feed.loads[i] # Null
  /\ LET l == feed.loads[i]
         r == getPostsResult(l.loader, l.page)
     IN /\ feed' = [feed EXCEPT
                      !.posts = IF l.reset THEN r.posts ELSE @ \o r.posts,
                      !.pagination = [ page |-> l.page, hasMore |-> r.hasMore,
                                       loading |-> FALSE ],
                      !.loads[i] = Null]
        /\ last' = Obs("loadPosts", "Newsfeed", <<>>, 0, "resolved", l, Return(r),
                       <<>>, r.hasMore /\ r.posts # <<>>)
  /\ UNCHANGED <<now, hasWindow, localStorage, cache, rateLimitRemaining,
                 rateLimitReset, remote, inflight, isLocalMode, disk, task, names,
                 sortedNames, cacheVars, panel, parseVars>>

\* getPosts of a load rejects: the catch of loadPosts, lines 63-71
LoadRejects == \E i \in DOMAIN feed.loads :
  /\ feed.loads[i] # Null
  /\ feed' = [feed EXCEPT !.error = "Failed to fetch",
                          !.pagination.loading = FALSE,
                          !.loads[i] = Null]
  /\ last' = Obs("loadPosts", "Newsfeed", <<>>, 0, "rejected", feed.loads[i],
                 Throw([name |-> "Error", message |-> "Failed to fetch"]), <<>>, FALSE)
  /\ UNCHANGED <<now, hasWindow, localStorage, cache, rateLimitRemaining,
                 rateLimitReset, remote, inflight, isLocalMode, disk, task, names,
                 sortedNames, cacheVars, panel, parseVars>>

\* handleRefresh, lines 85-89: the callback of the current render, from the
\* header button, disabled while loading (line 201), or from the button of the
\* error notice
HandleRefresh ==
  /\ feed.mounted
  /\ ~feed.pagination.loading \/ feed.error # ""
  /\ feed.resets < MaxResets
  /\ FreeLoads(feed) # {}
  /\ feed' = loadPosts(cleared(feed), feed.postLoader, 1, TRUE)
  /\ last' = Obs("handleRefresh", "Newsfeed", <<>>, 0, "started",
                 [page |-> 1, loader |-> feed.postLoader], Return(Null), <<>>, FALSE)
  /\ UNCHANGED <<now, hasWindow, localStorage, cache, rateLimitRemaining,
                 rateLimitReset, remote, inflight, isLocalMode, disk, task, names,
                 sortedNames, cacheVars, panel, parseVars>>

\* handleClearCache, lines 91-94: clearCache() of the current loader
\* (use-cache.ts lines 16-18), then handleRefresh; its button is never disabled
\* (lines 190-197)
HandleClearCache ==
  /\ feed.mounted
  /\ feed.resets < MaxResets
  /\ FreeLoads(feed) # {}
  /\ cache' = EmptyMap
  /\ inflight' = DetachAll(inflight)
  /\ feed' = loadPosts(cleared(feed), feed.postLoader, 1, TRUE)
  /\ last' = Obs("handleClearCache", "Newsfeed", <<>>, 0, "started",
                 [page |-> 1, loader |-> feed.postLoader], Return(Null), <<>>, FALSE)
  /\ UNCHANGED <<now, hasWindow, localStorage, rateLimitRemaining, rateLimitReset,
                 remote, isLocalMode, disk, task, names, sortedNames, cacheVars,
                 panel, parseVars>>

\* The configurations the panel hands to onConfigChange (config-panel.tsx
\* lines 84-86 after a save, 101-103 after a reset)
NewConfigs == {defaultFeedConfig, changedFeedConfig}

\* handleConfigChange, lines 74-83. Its dependency list is empty (line 83): it
\* stays the callback of the first render, whose loadPosts is the callback of
\* the first render too and calls getPosts of the first postLoader.
HandleConfigChange == \E newConfig \in NewConfigs :
  /\ feed.mounted
  /\ feed.resets < MaxResets
  /\ FreeLoads(feed) # {}
  /\ LET newPostLoader_ == newPostLoader(feed.postLoader.id + 1, newConfig)
         changed == [cleared(feed) EXCEPT !.config = newConfig,
                                          !.postLoader = newPostLoader_]
     IN feed' = loadPosts(changed, Unmounted.postLoader, 1, TRUE)
  /\ last' = Obs("handleConfigChange", "Newsfeed", <<>>, 0, "started",
                 [page |-> 1, loader |-> Unmounted.postLoader], Return(Null),
                 <<>>, FALSE)
  /\ UNCHANGED <<now, hasWindow, localStorage, cache, rateLimitRemaining,
                 rateLimitReset, remote, inflight, isLocalMode, disk, task, names,
                 sortedNames, cacheVars, panel, parseVars>>

\* The page in a browser, the component rendered once
InitNewsfeed ==
  /\ InitAPI
  /\ remote = Repo1
  /\ hasWindow = TRUE
  /\ isLocalMode = FALSE
  /\ disk = Null
  /\ names = <<>>
  /\ sortedNames = <<>>
  /\ InitStorage
  /\ InitPanel
  /\ InitFeed
  /\ InitParse

NextNewsfeed ==
  \/ Mount
  \/ LoadMore
  \/ LoadResolves
  \/ LoadRejects
  \/ HandleRefresh
  \/ HandleClearCache
  \/ HandleConfigChange

SpecNewsfeed == InitNewsfeed /\ [][NextNewsfeed]_vars

\* Pages 1..n of the feed of a configuration
PagesUpToOf(config, n) == [p \in 1..n |-> PageOf(config, p)]

\* Nothing under way and nothing failed
AtRest(f) ==
  /\ f.mounted
  /\ f.error = ""
  /\ ~f.pagination.loading
  /\ \A i \in DOMAIN f.loads : f.loads[i] = Null

\* The load in slot i has just completed (resolved or rejected)
Completes(i) ==
  /\ last'.op = "loadPosts"
  /\ feed.loads[i] # Null
  /\ feed'.loads[i] = Null

\* C38: whenever no load is under way and none has failed, the list shown is
\* pages 1..pagination.page of the feed of the current loader, each once and
\* in order; and a load started before a reset that completes after it leaves
\* the list, the page counter and hasMore of the new list as they are.
C38_ListIsPagesOfFeed ==
  [][/\ AtRest(feed') =>
          feed'.posts = PagesUpToOf(feed'.postLoader.config, feed'.pagination.page)
     /\ \A i \in DOMAIN feed.loads :
          (Completes(i) /\ feed.loads[i].resets < feed.resets) =>
             /\ feed'.posts = feed.posts
             /\ feed'.pagination.page = feed.pagination.page
             /\ feed'.pagination.hasMore = feed.pagination.hasMore]_vars

\* C39: once the configuration has changed, every page request, the reload of
\* page 1 that the change itself starts included, goes to the loader current
\* at that moment, the one built from the latest configuration.
C39_RequestsGoToNewLoader ==
  [][\A i \in DOMAIN feed.loads :
       (feed.loads[i] = Null /\ feed'.loads[i] # Null /\ feed'.postLoader.id > 0) =>
          feed'.loads[i].loader = feed'.postLoader]_vars

====
